---- MODULE Spec2Model ----
(***************************************************************************)
(* Model of the TIN parser: the DataManager store (parser_base.py), the    *)
(* ParserManager dispatcher (parser_base.py), the site parsers' lookup     *)
(* outcomes (site_parsers.py) and the entry point with its signal and      *)
(* exit handlers (main.py).                                                *)
(***************************************************************************)
EXTENDS Integers, Sequences, FiniteSets, TLC

\* ------------------------------------------------------------------ bounds
\* Number of distinct tax ids (INN) in play.
NumInns == 2
\* Longest input sheet (rows of the Excel file).
MaxInput == 2

\* DataManager.__init__ default save_interval.
SaveInterval == 2

InnTable == <<"0001", "0002", "0003", "0004">>
Inns == {InnTable[i] : i \in 1..NumInns}

\* Python None / pandas NaN in a cell.
None == "None"
\* The marker string "не найдено" the parsers write into both chairman fields.
NotFoundMark == "ne_naideno"

\* ------------------------------------------------------------ dictionaries
EmptyMap == [x \in {} |-> None]
Put(m, k, v) == [x \in (DOMAIN m) \cup {k} |-> IF x = k THEN v ELSE m[x]]
\* b's entries replace a's (dict update order: a first, then b).
Update(a, b) == [x \in (DOMAIN a) \cup (DOMAIN b) |-> IF x \in DOMAIN b THEN b[x] ELSE a[x]]
Restrict(m, S) == [x \in (DOMAIN m) \cap S |-> m[x]]

\* `if inn:` -- a non-empty string that is not None.
Truthy(inn) == inn # None /\ inn # ""

\* ------------------------------------------------------------ CompanyData
\* CompanyData.to_dict without the name column (the name is a function of the id).
Row(inn, cname, cinn, src) ==
  [inn |-> inn, chairman_name |-> cname, chairman_inn |-> cinn, source |-> src]
\* `not pd.isna(chairman_name) and not pd.isna(chairman_inn)`
HasChairman(r) == r.chairman_name # None /\ r.chairman_inn # None

\* -------------------------------------------------------------------- files
AbsentCache == [state |-> "absent", processed_inns |-> {}, results |-> EmptyMap]
\* A cache file cut short by an interrupted json.dump: json.load raises on it.
CorruptCache == [state |-> "corrupt", processed_inns |-> {}, results |-> EmptyMap]
CacheOf(p, r) == [state |-> "ok", processed_inns |-> p, results |-> r]

AbsentCsv == [state |-> "absent", rows |-> EmptyMap]
CsvOf(rows) == [state |-> "ok", rows |-> rows]
\* A file whose rows pandas.read_csv cannot deliver (wrong encoding, bad line).
UnreadableCsv(rows) == [state |-> "unreadable", rows |-> rows]

\* -------------------------------------------------- DataManager: loading
\* DataManager._load_cache: an unreadable file leaves an empty store.
LoadCache(f) ==
  IF f.state = "ok"
  THEN [processed_inns |-> {i \in f.processed_inns : i # None},
        results |-> Restrict(f.results, {i \in DOMAIN f.results : Truthy(i)})]
  ELSE [processed_inns |-> {}, results |-> EmptyMap]

\* A load that takes the rows of a file whatever read_csv made of it.
LoadCsvResultsUnchecked(st, f) ==
  LET new == {i \in DOMAIN f.rows :
                 i \notin DOMAIN st.results /\ HasChairman(f.rows[i])}
  IN [processed_inns |-> st.processed_inns \cup new,
      results |-> Update(st.results, Restrict(f.rows, new))]
\* A load that asks for the chairman name only.
LoadCsvResultsByName(st, f) ==
  IF f.state = "ok"
  THEN LET new == {i \in DOMAIN f.rows :
                      i \notin DOMAIN st.results /\ f.rows[i].chairman_name # None}
       IN [processed_inns |-> st.processed_inns \cup new,
           results |-> Update(st.results, Restrict(f.rows, new))]
  ELSE st
\* DataManager._load_csv_results: a row is taken when its id has no result yet
\* and both chairman cells are filled; it is then a result and a processed id.
LoadCsvResults(st, f) ==
  IF f.state = "ok"
  THEN LET new == {i \in DOMAIN f.rows :
                      i \notin DOMAIN st.results /\ HasChairman(f.rows[i])}
       IN [processed_inns |-> st.processed_inns \cup new,
           results |-> Update(st.results, Restrict(f.rows, new))]
  ELSE st

\* DataManager.__init__: cache first, then the CSV export.
LoadStore(cache, csv) == LoadCsvResults(LoadCache(cache), csv)

\* The loop of get_companies_to_process over the sheet, with the filter dropped.
RECURSIVE FilterRowsNoSkip(_, _, _)
FilterRowsNoSkip(rows, processed, acc) ==
  IF rows = <<>>
  THEN [companies |-> acc, processed_inns |-> processed]
  ELSE LET r == Head(rows) IN
       IF r.has_data
       THEN FilterRowsNoSkip(Tail(rows), processed \cup {r.inn}, acc)
       ELSE FilterRowsNoSkip(Tail(rows), processed, Append(acc, r.inn))

\* The loop of get_companies_to_process: a processed id is skipped, a row that
\* carries both chairman cells is marked processed and skipped, the rest is work.
RECURSIVE FilterRows(_, _, _)
FilterRows(rows, processed, acc) ==
  IF rows = <<>>
  THEN [companies |-> acc, processed_inns |-> processed]
  ELSE LET r == Head(rows) IN
       IF r.inn \in processed
       THEN FilterRows(Tail(rows), processed, acc)
       ELSE IF r.has_data
            THEN FilterRows(Tail(rows), processed \cup {r.inn}, acc)
            ELSE FilterRows(Tail(rows), processed, Append(acc, r.inn))

\* The loop of get_companies_to_process without the test of the chairman cells.
RECURSIVE FilterRowsTakingFilled(_, _, _)
FilterRowsTakingFilled(rows, processed, acc) ==
  IF rows = <<>>
  THEN [companies |-> acc, processed_inns |-> processed]
  ELSE LET r == Head(rows) IN
       IF r.inn \in processed
       THEN FilterRowsTakingFilled(Tail(rows), processed, acc)
       ELSE FilterRowsTakingFilled(Tail(rows), processed, Append(acc, r.inn))

GetCompaniesNoSkip(rows, processed) == FilterRowsNoSkip(rows, processed, <<>>)
GetCompaniesTakingFilled(rows, processed) == FilterRowsTakingFilled(rows, processed, <<>>)
\* DataManager.get_companies_to_process
GetCompaniesToProcess(rows, processed) == FilterRows(rows, processed, <<>>)

\* -------------------------------------------------- DataManager: saving
\* The content _save_cache hands to json.dump.
\* A cache that keeps the ids and drops the results.
CacheDataIdsOnly(processed, res) == CacheOf({i \in processed : i # None}, EmptyMap)
CacheData(processed, res) == CacheOf({i \in processed : i # None}, res)

\* _save_to_csv with the merge order turned round: the file's rows first, the
\* results only for ids the file lacks.
SaveToCsvFileFirst(res, f) ==
  IF DOMAIN res = {} THEN f
  ELSE IF f.state = "absent" THEN CsvOf(res)
  ELSE IF f.state = "ok"
       THEN CsvOf(Update(Restrict(res, {i \in DOMAIN res : Truthy(i)}),
                         Restrict(f.rows, {i \in DOMAIN f.rows : Truthy(i)})))
       ELSE CsvOf(res)

\* DataManager._save_to_csv: nothing is written for an empty store; a missing
\* file is created from the results; an existing file is merged, the current
\* results first and the file's rows only for ids the results lack; a file that
\* cannot be read is replaced by the results alone.
SaveToCsv(res, f) ==
  IF DOMAIN res = {} THEN f
  ELSE IF f.state = "absent" THEN CsvOf(res)
  ELSE IF f.state = "ok"
       THEN CsvOf(Update(Restrict(f.rows, {i \in DOMAIN f.rows : Truthy(i)}),
                         Restrict(res, {i \in DOMAIN res : Truthy(i)})))
       ELSE CsvOf(res)

\* ----------------------------------------------------------- site parsers
HttpSite == "checko.ru"
BrowserSite == "focus.kontur.ru"
ApiSite == "dadata.ru"
Sites == {HttpSite, BrowserSite}

\* The exception process_batch catches to stop the run: a source whose quota
\* is used up.  process_batch imports the class from site_parsers, where the
\* sources at hand do not define it; that a lookup can end a batch with it is
\* the specification's TerminalFailure.
ApiLimitExceeded == "terminal"
\* What one lookup meets.
HttpEvents == {"found", "not_found", "network_error", "raises", ApiLimitExceeded}
BrowserEvents == {"found", "not_found", "timeout", "blocked", "raises", "restart_fails",
                  ApiLimitExceeded}
ApiEvents == {"found", "not_found", "raises", ApiLimitExceeded}
Events(site) ==
  IF site = HttpSite THEN HttpEvents
  ELSE IF site = ApiSite THEN ApiEvents ELSE BrowserEvents
\* Failures a later attempt may not meet again.
RetryableEvents == {"network_error", "timeout", "blocked"}

\* CheckoParser.parse_company: the company with the director's name, or None.
HttpParseCompany(inn, ev) ==
  IF ev = "found" THEN {Row(inn, "FIO", None, None)} ELSE {}

\* FocusKonturParser.parse_company: a block page gives None; a missing company
\* and a timeout that outlasts the retries both give the "не найдено" marker.
BrowserParseCompany(inn, ev) ==
  CASE ev = "found" -> {Row(inn, "FIO", "770000000000", None)}
    [] ev = "blocked" -> {}
    [] ev \in {"not_found", "timeout"} -> {Row(inn, NotFoundMark, NotFoundMark, None)}

\* DadataParser.parse_company: the company with the director's name and id,
\* or None.
ApiParseCompany(inn, ev) ==
  IF ev = "found" THEN {Row(inn, "FIO", "770000000000", None)} ELSE {}

ParseCompany(site, inn, ev) ==
  IF site = HttpSite THEN HttpParseCompany(inn, ev)
  ELSE IF site = ApiSite THEN ApiParseCompany(inn, ev)
  ELSE BrowserParseCompany(inn, ev)

\* DadataParser.parse_companies: `data_manager = self._get_data_manager()`
\* walks the frames of its callers, finds the ParserManager that awaits it and
\* takes its data_manager; every result is then handed to update_results
\* inside the loop.  The other parsers modelled find no DataManager.
RecordsItself(site) == site = ApiSite

\* parse_company ends with an exception that parse_companies catches
\* (`except Exception` around each company): alone, or, in the browser parser,
\* followed by a restart of the browser that fails as well.
Raised == {"raises", "restart_fails"}
\* parse_companies: `if result: result.source = self.site_name; results.append`.
Collected(site, inn, ev) ==
  IF ev \in Raised THEN {}
  ELSE {[r EXCEPT !.source = site] : r \in ParseCompany(site, inn, ev)}

\* A loop over the companies that any exception ends.
BreaksBatchOnAnyRaise(ev) == ev \in Raised
\* The browser parser's parse_companies: `break` when the browser cannot be
\* started again after a company that raised.
BreaksBatch(ev) == ev = "restart_fails"

\* ParserManager.distribute_companies: company i goes to parser i mod n.
Share(companies, n, k) ==
  LET idx == {i \in 1..Len(companies) : (i - 1) % n = k - 1}
      RECURSIVE Pick(_)
      Pick(i) == IF i > Len(companies) THEN <<>>
                 ELSE IF i \in idx THEN <<companies[i]>> \o Pick(i + 1)
                 ELSE Pick(i + 1)
  IN Pick(1)

\* ParserManager.run: one task per parser with a non-empty share, in
\* registration order.
RECURSIVE TasksFrom(_, _, _)
TasksFrom(companies, ps, k) ==
  IF k > Len(ps) THEN <<>>
  ELSE LET items == Share(companies, Len(ps), k) IN
       (IF items = <<>> THEN <<>> ELSE <<[parser |-> k, items |-> items]>>)
         \o TasksFrom(companies, ps, k + 1)

\* ------------------------------------------------------------------- state
VARIABLES
  cacheFile, bakFile, csvFile,  \* parsed_data_cache.json, its .bak, results.csv
  inputFile,                    \* the Excel sheet: [state, rows]
  parsers,                      \* ParserManager.parsers, as site names
  processed_inns, results, runtime_results, save_results_counter, \* DataManager
  data_manager, is_saving, is_exiting,                            \* main.py globals
  pc,                           \* where the main thread stands
  exit_code,                    \* what main() returned or os._exit was given: <<>> until then
  flush,                        \* the save in progress of the main thread and of the signal handler
  tasks, taskIdx, itemIdx, batchResults, recIdx, should_stop,     \* ParserManager.run
  lookups,                      \* history: every parse_company call made, [inn, parser, ev]
  loadedInns,                   \* history: processed_inns as DataManager.__init__ left it
  started, completed, halted,   \* history: tasks begun / run to their end / ended by ApiLimitExceeded
  cacheWrites,                  \* history: cache writes carried to their end, per thread of this process
  csvBefore,                    \* history: the export as the last _save_to_csv found it
  finalFlushes,                 \* history: shutdown saves carried to their end
  lastGood,                     \* history: content of the last cache write that ended
  signals, secondAt,            \* history: SIGINTs delivered; handler step the second one met
  runs,                         \* history: processes started so far
  dadata_keys, current_index,   \* KeyRotator of DadataParser: keys, current_index
  failed_key_attempts, force_token, ignore_force_token_temporarily, \* DadataParser
  dadata,                       \* DadataParser.dadata: the token of its client, or None
  keyMode,                      \* how the service answers each key
  dpc, todo, attempt,           \* DadataParser: position, companies left in the batch, loop index
  last,                         \* history: token and outcome of the last request
  streak,                       \* history: failures in a row seen on each token
  retired, reused,              \* history: tokens whose streak reached the threshold / asked again after
  used,                         \* history: tokens asked in the batch
  rotations,                    \* history: every rotate_key made by parse_company
  nreq,                         \* history: requests made in the batch
  raiffeisen_blocked,           \* the breaker's flag
  raiffeisen_block_time,        \* the time it was last set
  now,                          \* time.time(), in units of 600 s
  tripped,                      \* set_raiffeisen_blocked was ever called
  lastTrip, lastQuery,          \* the last trip, and the last query made since
  clock,                        \* time.time() as DataManager reads it, in units of 150 s
  last_save_time,               \* DataManager.last_save_time
  lastCall,                     \* history: the last update_results / save_results call made directly
  checko_current,               \* parser.checko_keys.get_current_key() of a CheckoParser with keys
  checko_env,                   \* CHECKO_TOKEN_1, CHECKO_TOKEN_2, ... of the environment
  companies_batch,              \* the share of that parser, as positions 1..n
  subtasks,                     \* the process_batch tasks run makes for it: [key, items]
  self_max_workers,             \* ParserManager.max_workers
  env_max_workers,              \* int(os.getenv('MAX_WORKERS', os.cpu_count() or 4))
  api_max_workers,              \* int(os.getenv('API_MAX_WORKERS', 2))
  has_api_parsers,              \* run: a CheckoParser or DadataParser has a share
  shares,                       \* run: the non-empty shares, share k holding the ids to look up
  run_mode,                     \* run: "none", then "sequential" or "pool", then "over"
  max_workers,                  \* run: its local max_workers, 0 before it is computed
  batch_state,                  \* per share: "queued", "running", "done"
  parent_results,               \* ids with a runtime result in the DataManager of the main process
  child_results,                \* per share: ids with a runtime result in the DataManager of its worker process
  cache_ids,                    \* processed_inns of the cache file as the closing save wrote it
  proc_blocked,                 \* per process: raiffeisen_blocked of its module site_parsers
  proc_block_time,              \* per process: raiffeisen_block_time of its module
  wall,                         \* time.time() of the machine, in units of 600 s
  max_retry_attempts,           \* DadataParser.raiffeisen_max_retry_attempts
  rpc,                          \* per process: where its call of the secondary lookup stands
  current_retry,                \* per process: current_retry of the call
  turns,                        \* history: turns of the while loop the call has begun
  sent,                         \* history: requests made to the site: [proc, own, elsewhere]
  lastLookup,                   \* history: the last page outcome, and the breaker of its process around it
  http_pc,                      \* CheckoParser.parse_company: "idle", "attempt", "returned"
  http_attempt,                 \* its loop index
  http_requests,                \* history: turns of the loop made for the company
  http_result,                  \* what the call returned: "none" until then, "company", "None"
  codec_processed,              \* a DataManager about to save: processed_inns
  codec_results,                \* its results
  codec_runtime,                \* its runtime_results
  codec_file,                   \* the cache file it writes, as JSON values
  codec_loaded,                 \* processed_inns and results of a new DataManager built on the file
  codec_pc                      \* "filled", "saved", "loaded"

files == <<cacheFile, bakFile, csvFile>>
config == <<inputFile, parsers>>
store == <<processed_inns, results, runtime_results, save_results_counter>>
globals == <<data_manager, is_saving, is_exiting>>
manager == <<tasks, taskIdx, itemIdx, batchResults, recIdx, should_stop>>
history == <<lookups, loadedInns, started, completed, halted, cacheWrites,
             csvBefore, finalFlushes, lastGood, signals, secondAt, runs>>
\* The program of main.py and the DataManager / ParserManager it drives.
program == <<files, config, store, globals, pc, flush, manager, history, exit_code>>
\* A DadataParser with its KeyRotator, and what was seen of its requests.
connector == <<dadata_keys, current_index, failed_key_attempts, force_token,
               ignore_force_token_temporarily, dadata, keyMode, dpc, todo, attempt,
               last, streak, retired, reused, used, rotations, nreq>>
\* The breaker of the Raiffeisen site, shared by all parsers.
breaker == <<raiffeisen_blocked, raiffeisen_block_time, now, tripped, lastTrip, lastQuery>>
\* The save clock of a DataManager that is called directly.
timer == <<clock, last_save_time, lastCall>>
\* The share of a parser with several keys, as run splits it.
splitter == <<checko_current, checko_env, companies_batch, subtasks>>
\* The way run executes its batches: one after the other, or in worker processes.
pool == <<self_max_workers, env_max_workers, api_max_workers, has_api_parsers, shares,
          run_mode, max_workers, batch_state, parent_results, child_results, cache_ids>>
\* A call of _get_chairman_inn_via_raiffeisen in each worker process, with the
\* module globals of that process.
raiffeisen == <<proc_blocked, proc_block_time, wall, max_retry_attempts, rpc, current_retry,
                turns, sent, lastLookup>>
\* A call of CheckoParser.parse_company.
checko == <<http_pc, http_attempt, http_requests, http_result>>
\* A DataManager that saves, and another one built on the file it wrote.
codec == <<codec_processed, codec_results, codec_runtime, codec_file, codec_loaded, codec_pc>>
callers == <<raiffeisen, checko, codec>>
sources == <<connector, breaker, timer, splitter, pool, callers>>
vars == <<program, sources>>

Threads == {"main", "sig"}
Idle == [step |-> "idle", export |-> FALSE, reset |-> FALSE, kind |-> "none"]
\* A save about to start: export says whether the CSV is written, reset whether
\* it is save_results (which clears the counter).  The caller's pc already names
\* the place it goes on from; it waits there until the save is over.
Begin(kind, export, reset) ==
  [step |-> "merge", export |-> export, reset |-> reset, kind |-> kind]
\* The saves made because the program is ending.
ShutdownKinds == {"final", "except", "signal"}

Alive == pc \notin {"terminated", "dead"}
\* The main thread runs its own code: no save of its own is open, no handler runs.
MainReady == Alive /\ flush["main"].step = "idle" /\ flush["sig"].step = "idle"

\* ------------------------------------------------------------- fresh process
\* Module globals of main.py and the fields DataManager.__init__ sets before it
\* loads.
FreshProcess ==
  /\ processed_inns = {} /\ results = EmptyMap /\ runtime_results = EmptyMap
  /\ save_results_counter = 0
  /\ data_manager = FALSE /\ is_saving = FALSE /\ is_exiting = FALSE
  /\ pc = "start"
  /\ flush = [t \in Threads |-> Idle]
  /\ tasks = <<>> /\ taskIdx = 0 /\ itemIdx = 0 /\ batchResults = <<>> /\ recIdx = 0
  /\ should_stop = FALSE
  /\ lookups = {} /\ loadedInns = {} /\ started = {} /\ completed = {} /\ halted = {}
  /\ cacheWrites = [t \in Threads |-> 0] /\ csvBefore = AbsentCsv
  /\ finalFlushes = 0 /\ signals = 0 /\ secondAt = "none"
  /\ exit_code = <<>>

\* ------------------------------------------------------------ main thread
\* main(): DataManager(input_file, output_file, ...) loads cache and CSV.
Construct ==
  /\ MainReady /\ pc = "start"
  /\ LET st == LoadStore(cacheFile, csvFile) IN
       /\ processed_inns' = st.processed_inns
       /\ results' = st.results
       /\ loadedInns' = st.processed_inns
  /\ data_manager' = TRUE
  /\ pc' = "setup"
  /\ UNCHANGED <<files, config, sources, exit_code, runtime_results, save_results_counter, is_saving,
                 is_exiting, flush, manager, lookups, started, completed, halted,
                 cacheWrites, csvBefore, finalFlushes, lastGood, signals, secondAt, runs>>

\* main(): the parsers are built and registered; a constructor that raises
\* lands in `except Exception`.
Setup ==
  /\ MainReady /\ pc = "setup"
  /\ \E raises \in BOOLEAN : pc' = IF raises THEN "except" ELSE "run"
  /\ UNCHANGED <<files, config, sources, exit_code, store, globals, flush, manager, history>>

\* ParserManager.run up to the task list: get_companies_to_process (an
\* unreadable sheet raises), `if not companies: return`, distribute_companies
\* and one process_batch task per non-empty share.
RunFilter ==
  /\ MainReady /\ pc = "run"
  /\ IF inputFile.state # "ok"
     THEN /\ pc' = "except"
          /\ UNCHANGED <<processed_inns, manager, exit_code>>
     ELSE LET g == GetCompaniesToProcess(inputFile.rows, processed_inns) IN
          /\ processed_inns' = g.processed_inns
          /\ IF g.companies = <<>>
             THEN /\ pc' = "exit"
                  /\ exit_code' = <<0>>
                  /\ UNCHANGED manager
             ELSE /\ tasks' = TasksFrom(g.companies, parsers, 1)
                  /\ should_stop' = FALSE
                  /\ taskIdx' = 1
                  /\ pc' = "loop"
                  /\ UNCHANGED <<itemIdx, batchResults, recIdx, exit_code>>
  /\ UNCHANGED <<files, config, sources, results, runtime_results, save_results_counter,
                 globals, flush, history>>

\* The sequential loop of run, ignoring the stop flag.
LoopEndsIgnoringStop == taskIdx > Len(tasks)
\* The sequential loop of run: `if self.should_stop: break`, else the next task.
LoopEnds == taskIdx > Len(tasks) \/ should_stop

\* for task in tasks: ... await task; after the loop, save_results(force=True).
Loop ==
  /\ MainReady /\ pc = "loop"
  /\ IF LoopEnds
     THEN /\ pc' = "final"
          /\ UNCHANGED <<itemIdx, batchResults, started>>
     ELSE /\ pc' = "lookup"
          /\ itemIdx' = 1
          /\ batchResults' = <<>>
          /\ started' = started \cup {taskIdx}
  /\ UNCHANGED <<files, config, sources, exit_code, store, globals, flush, tasks, taskIdx, recIdx,
                 should_stop, lookups, loadedInns, completed, halted, cacheWrites,
                 csvBefore, finalFlushes, lastGood, signals, secondAt, runs>>

\* An interval test that never asks for a save.
IntervalReachedNever(n) == FALSE
\* update_results, `if self.save_results_counter >= self.save_interval`
IntervalReached(n) == n >= SaveInterval

\* One turn of parse_companies: parse_company on the next company of the batch;
\* a result that is not None is appended (and, by a parser that reached the
\* DataManager, handed to update_results), an exception is logged and the loop
\* goes on (the browser parser leaves the loop when it cannot restart its
\* browser before the next company).  When the batch ends with
\* ApiLimitExceeded, process_batch never gets the list built so far.
Lookup ==
  /\ MainReady /\ pc = "lookup"
  /\ LET t == tasks[taskIdx]
         inn == t.items[itemIdx]
         site == parsers[t.parser]
     IN \E ev \in Events(site) :
          /\ ev = "restart_fails" => itemIdx < Len(t.items)
          /\ lookups' = lookups \cup {[inn |-> inn, parser |-> t.parser, ev |-> ev]}
          /\ IF ev = ApiLimitExceeded
             THEN /\ pc' = "terminal"
                  /\ batchResults' = <<>>
                  /\ halted' = halted \cup {taskIdx}
                  /\ UNCHANGED <<itemIdx, recIdx, runtime_results, save_results_counter, flush>>
             ELSE /\ UNCHANGED halted
                  /\ IF RecordsItself(site) /\ Collected(site, inn, ev) # {}
                     THEN LET r == CHOOSE r \in Collected(site, inn, ev) : TRUE IN
                          /\ runtime_results' = Put(runtime_results, r.inn, r)
                          /\ save_results_counter' = save_results_counter + 1
                          /\ flush' = IF IntervalReached(save_results_counter + 1)
                                      THEN [flush EXCEPT !["main"] = Begin("interval", FALSE, TRUE)]
                                      ELSE flush
                     ELSE UNCHANGED <<runtime_results, save_results_counter, flush>>
                  /\ batchResults' =
                       (IF Collected(site, inn, ev) = {} THEN batchResults
                        ELSE Append(batchResults, CHOOSE r \in Collected(site, inn, ev) : TRUE))
                  /\ IF itemIdx = Len(t.items) \/ BreaksBatch(ev)
                     THEN pc' = "record" /\ recIdx' = 1 /\ UNCHANGED itemIdx
                     ELSE pc' = "lookup" /\ itemIdx' = itemIdx + 1 /\ UNCHANGED recIdx
  /\ UNCHANGED <<files, config, sources, exit_code, processed_inns, results, globals, tasks,
                 taskIdx, should_stop, loadedInns, started, completed, cacheWrites,
                 csvBefore, finalFlushes, lastGood, signals, secondAt, runs>>

\* process_batch: `for result in results: update_results(result)`.  One result
\* per step: it enters runtime_results, the counter grows, and at the save
\* interval save_results(force=False) is entered.
Record ==
  /\ MainReady /\ pc = "record"
  /\ IF recIdx > Len(batchResults)
     THEN /\ pc' = "loop"
          /\ taskIdx' = taskIdx + 1
          /\ completed' = completed \cup {taskIdx}
          /\ UNCHANGED <<runtime_results, save_results_counter, flush, recIdx>>
     ELSE LET r == batchResults[recIdx] IN
          /\ recIdx' = recIdx + 1
          /\ UNCHANGED <<pc, taskIdx, completed>>
          /\ IF Truthy(r.inn)
             THEN /\ runtime_results' = Put(runtime_results, r.inn, r)
                  /\ save_results_counter' = save_results_counter + 1
                  /\ flush' = IF IntervalReached(save_results_counter + 1)
                              THEN [flush EXCEPT !["main"] = Begin("interval", FALSE, TRUE)]
                              ELSE flush
             ELSE UNCHANGED <<runtime_results, save_results_counter, flush>>
  /\ UNCHANGED <<files, config, sources, exit_code, processed_inns, results, globals, tasks, itemIdx,
                 batchResults, should_stop, lookups, loadedInns, started, halted,
                 cacheWrites, csvBefore, finalFlushes, lastGood, signals, secondAt, runs>>

\* process_batch, `except ApiLimitExceeded`: save_results(force=True) ...
Terminal ==
  /\ MainReady /\ pc = "terminal"
  /\ flush' = [flush EXCEPT !["main"] = Begin("terminal", TRUE, TRUE)]
  /\ pc' = "stop"
  /\ UNCHANGED <<files, config, sources, exit_code, store, globals, manager, history>>

\* ... then self.should_stop = True, and the task is over.
Stop ==
  /\ MainReady /\ pc = "stop"
  /\ should_stop' = TRUE
  /\ taskIdx' = taskIdx + 1
  /\ pc' = "loop"
  /\ UNCHANGED <<files, config, sources, exit_code, store, globals, flush, tasks, itemIdx, batchResults,
                 recIdx, history>>

\* run: the closing save_results(force=True); main then returns 0 (line 268).
Final ==
  /\ MainReady /\ pc = "final"
  /\ flush' = [flush EXCEPT !["main"] = Begin("final", TRUE, TRUE)]
  /\ pc' = "exit"
  /\ exit_code' = <<0>>
  /\ UNCHANGED <<files, config, sources, store, globals, manager, history>>

\* main, `except Exception`: under is_saving, merge, _save_cache, _save_to_csv.
Except ==
  /\ MainReady /\ pc = "except"
  /\ IF data_manager /\ ~is_saving
     THEN /\ is_saving' = TRUE
          /\ flush' = [flush EXCEPT !["main"] = Begin("except", TRUE, FALSE)]
          /\ pc' = "except_done"
     ELSE /\ pc' = "exit"
          /\ UNCHANGED <<is_saving, flush>>
  /\ exit_code' = <<1>>
  /\ UNCHANGED <<files, config, sources, store, data_manager, is_exiting, manager, history>>

\* ... `finally: is_saving = False`, return 1.
ExceptDone ==
  /\ MainReady /\ pc = "except_done"
  /\ is_saving' = FALSE
  /\ pc' = "exit"
  /\ UNCHANGED <<files, config, sources, exit_code, store, data_manager, is_exiting, flush, manager, history>>

\* __main__: is_exiting = True; sys.exit(...).  The atexit hook save_on_exit
\* then finds is_exiting set and saves nothing.
Exit ==
  /\ MainReady /\ pc = "exit"
  /\ is_exiting' = TRUE
  /\ pc' = "terminated"
  /\ UNCHANGED <<files, config, sources, exit_code, store, data_manager, is_saving, flush, manager, history>>

\* ------------------------------------------------------------------ saving
Saving(t) ==
  /\ Alive /\ flush[t].step # "idle"
  /\ t = "main" => flush["sig"].step = "idle"
Goto(t, step) == [flush EXCEPT ![t].step = step]

\* save_results step 1 (and the same loop in main.py's handlers): every
\* runtime result becomes a result and a processed id.
SaveMerge(t) ==
  /\ Saving(t) /\ flush[t].step = "merge"
  /\ results' = Update(results, runtime_results)
  /\ processed_inns' = processed_inns \cup DOMAIN runtime_results
  /\ flush' = Goto(t, "backup")
  /\ UNCHANGED <<files, config, sources, exit_code, runtime_results, save_results_counter, globals, pc,
                 manager, history>>

\* _save_cache: an existing cache file is copied over the .bak file, whatever
\* it holds.
CacheBackup(t) ==
  /\ Saving(t) /\ flush[t].step = "backup"
  /\ bakFile' = IF cacheFile.state # "absent" THEN cacheFile ELSE bakFile
  /\ flush' = Goto(t, "open")
  /\ UNCHANGED <<cacheFile, csvFile, config, sources, exit_code, store, globals, pc, manager, history>>

\* _save_cache: the runtime results are merged once more and the cache file is
\* opened for writing, which empties it.
CacheOpen(t) ==
  /\ Saving(t) /\ flush[t].step = "open"
  /\ results' = Update(results, runtime_results)
  /\ processed_inns' = processed_inns \cup {i \in DOMAIN runtime_results : Truthy(i)}
  /\ cacheFile' = CorruptCache
  /\ flush' = Goto(t, "dump")
  /\ UNCHANGED <<bakFile, csvFile, config, sources, exit_code, runtime_results, save_results_counter,
                 globals, pc, manager, history>>

\* A dump that leaves the results out when nothing was counted since the last save.
CacheDumpIfCounted(t) ==
  /\ Saving(t) /\ flush[t].step = "dump"
  /\ cacheFile' = CacheData(processed_inns, IF save_results_counter > 0 THEN results ELSE EmptyMap)
  /\ lastGood' = CacheData(processed_inns, IF save_results_counter > 0 THEN results ELSE EmptyMap)
  /\ cacheWrites' = [cacheWrites EXCEPT ![t] = @ + 1]
  /\ flush' = Goto(t, IF flush[t].export THEN "csv" ELSE "finish")
  /\ UNCHANGED <<bakFile, csvFile, config, sources, exit_code, store, globals, pc, manager, lookups,
                 loadedInns, started, completed, halted, csvBefore, finalFlushes,
                 signals, secondAt, runs>>
\* _save_cache: json.dump runs to its end and the file is closed.
CacheDump(t) ==
  /\ Saving(t) /\ flush[t].step = "dump"
  /\ cacheFile' = CacheData(processed_inns, results)
  /\ lastGood' = CacheData(processed_inns, results)
  /\ cacheWrites' = [cacheWrites EXCEPT ![t] = @ + 1]
  /\ flush' = Goto(t, IF flush[t].export THEN "csv" ELSE "finish")
  /\ UNCHANGED <<bakFile, csvFile, config, sources, exit_code, store, globals, pc, manager, lookups,
                 loadedInns, started, completed, halted, csvBefore, finalFlushes,
                 signals, secondAt, runs>>

\* `if force: self._save_to_csv()`, and the _save_to_csv call of the handlers.
CsvWrite(t) ==
  /\ Saving(t) /\ flush[t].step = "csv"
  /\ csvFile' = SaveToCsv(results, csvFile)
  /\ csvBefore' = csvFile
  /\ flush' = Goto(t, "finish")
  /\ UNCHANGED <<cacheFile, bakFile, config, sources, exit_code, store, globals, pc, manager, lookups,
                 loadedInns, started, completed, halted, cacheWrites, finalFlushes,
                 lastGood, signals, secondAt, runs>>

\* The save is over.  save_results clears its counter; the signal handler
\* clears is_saving and calls os._exit(0).
SaveFinish(t) ==
  /\ Saving(t) /\ flush[t].step = "finish"
  /\ save_results_counter' = IF flush[t].reset THEN 0 ELSE save_results_counter
  /\ finalFlushes' = IF flush[t].kind \in ShutdownKinds THEN finalFlushes + 1
                     ELSE finalFlushes
  /\ flush' = [flush EXCEPT ![t] = Idle]
  /\ IF t = "sig"
     THEN is_saving' = FALSE /\ pc' = "terminated" /\ exit_code' = <<0>>
     ELSE UNCHANGED <<is_saving, pc, exit_code>>
  /\ UNCHANGED <<files, config, sources, processed_inns, results, runtime_results,
                 data_manager, is_exiting, manager, lookups, loadedInns, started,
                 completed, halted, cacheWrites, csvBefore, lastGood, signals,
                 secondAt, runs>>

\* ------------------------------------------------------------------ signals
\* signal_handler: a repeated signal calls os._exit(1) at once; the first one
\* sets is_exiting, saves under is_saving when a store exists and no save holds
\* the flag, and calls os._exit(0).
SigInt ==
  /\ Alive
  /\ signals' = signals + 1
  /\ secondAt' = IF is_exiting /\ flush["sig"].step # "idle" THEN flush["sig"].step
                 ELSE secondAt
  /\ IF is_exiting
     THEN /\ pc' = "terminated"
          /\ exit_code' = <<1>>
          /\ UNCHANGED <<is_exiting, is_saving, flush>>
     ELSE /\ is_exiting' = TRUE
          /\ IF data_manager /\ ~is_saving
             THEN /\ is_saving' = TRUE
                  /\ flush' = [flush EXCEPT !["sig"] = Begin("signal", TRUE, FALSE)]
                  /\ UNCHANGED <<pc, exit_code>>
             ELSE /\ pc' = "terminated"
                  /\ exit_code' = <<0>>
                  /\ UNCHANGED <<is_saving, flush>>
  /\ UNCHANGED <<files, config, sources, store, data_manager, manager, lookups, loadedInns,
                 started, completed, halted, cacheWrites, csvBefore, finalFlushes,
                 lastGood, runs>>

\* ----------------------------------------------------- crash and next run
\* The process is killed (power loss, kill -9): whatever it was writing stays
\* as it is on disk.
Crash ==
  /\ Alive
  /\ pc' = "dead"
  /\ UNCHANGED <<files, config, sources, exit_code, store, globals, flush, manager, history>>

\* Runs of the program started one after the other on the same files.
MaxRuns == 3

\* The program is started again on the files the last run left.
Restart ==
  /\ ~Alive
  /\ runs < MaxRuns
  /\ runs' = runs + 1
  /\ processed_inns' = {} /\ results' = EmptyMap /\ runtime_results' = EmptyMap
  /\ save_results_counter' = 0
  /\ data_manager' = FALSE /\ is_saving' = FALSE /\ is_exiting' = FALSE
  /\ pc' = "start"
  /\ flush' = [t \in Threads |-> Idle]
  /\ tasks' = <<>> /\ taskIdx' = 0 /\ itemIdx' = 0 /\ batchResults' = <<>> /\ recIdx' = 0
  /\ should_stop' = FALSE
  /\ lookups' = {} /\ loadedInns' = {} /\ started' = {} /\ completed' = {} /\ halted' = {}
  /\ cacheWrites' = [t \in Threads |-> 0] /\ csvBefore' = AbsentCsv
  /\ finalFlushes' = 0 /\ signals' = 0 /\ secondAt' = "none"
  /\ exit_code' = <<>>
  /\ UNCHANGED <<files, config, sources, lastGood>>

\* --------------------------------------------- KeyRotator and DadataParser
\* Keys a pool may hold, and companies in one batch.
MaxKeys == 2
MaxBatch == 3
KeyTable == <<"k1", "k2", "k3", "k4">>
Keys == {KeyTable[i] : i \in 1..MaxKeys}
\* DadataParser.max_key_attempts (MAX_KEY_ATTEMPTS, default '3').
max_key_attempts == 3

\* KeyRotator.get_current_key
GetCurrentKey(keys, idx) == IF keys = <<>> THEN None ELSE keys[idx + 1]

\* rotate_key that leaves the index where it is.
RotateKeyStay(keys, idx) ==
  IF keys = <<>> THEN [index |-> idx, key |-> None]
  ELSE [index |-> idx, key |-> keys[idx + 1]]
\* KeyRotator.rotate_key: the new index and the key returned.
RotateKey(keys, idx) ==
  IF keys = <<>> THEN [index |-> idx, key |-> None]
  ELSE [index |-> (idx + 1) % Len(keys), key |-> keys[((idx + 1) % Len(keys)) + 1]]

\* `if self.force_token and not self.ignore_force_token_temporarily`
Pinned(force, ignore) == force # None /\ ~ignore
\* _create_dadata_client: the token the new client is built with.
ClientToken(force, ignore, keys, idx) ==
  IF Pinned(force, ignore) THEN force ELSE GetCurrentKey(keys, idx)
\* _rotate_dadata_client: the pinned token again, or the pool's next key.
RotateClient(force, ignore, keys, idx) ==
  IF Pinned(force, ignore) THEN [index |-> idx, key |-> force]
  ELSE RotateKey(keys, idx)

\* The threshold test that acts on the first failure.
ReachedLimitAtOnce(count) == count >= 1
\* `self.failed_key_attempts.get(current_key, 0) >= self.max_key_attempts`
ReachedLimit(count) == count >= max_key_attempts

\* What find_by_id meets with a key: an answer (the organization, or an empty
\* list), 403, 429, or another error.  A working key answers; a flaky key may
\* meet any of them.
KeyModes == {"ok", "forbidden", "limit", "flaky"}
Answers == {"found", "not_found"}
Outcomes(mode) ==
  IF mode = "ok" THEN Answers
  ELSE IF mode = "flaky" THEN Answers \cup {"forbidden", "limit", "error"}
  ELSE {mode}
\* Failures of the key itself: authorization and quota.
KeyFailures == {"forbidden", "limit"}

NoCounts == [x \in {} |-> 0]
Count(m, k) == IF k \in DOMAIN m THEN m[k] ELSE 0
Remove(m, k) == [x \in (DOMAIN m) \ {k} |-> m[x]]

\* parse_company, `max_attempts = max(1, get_all_keys_count())`
MaxAttempts == IF Len(dadata_keys) >= 1 THEN Len(dadata_keys) ELSE 1

\* set_specific_token, called before the batch starts.
SetSpecificToken ==
  /\ dpc = "idle" /\ force_token = None
  /\ \E t \in Keys : force_token' = t
  /\ ignore_force_token_temporarily' = FALSE
  /\ UNCHANGED <<program, callers, breaker, timer, splitter, pool, dadata_keys, current_index, failed_key_attempts, dadata,
                 keyMode, dpc, todo, attempt, last, streak, retired, reused, used,
                 rotations, nreq>>

\* parse_companies: the failure counters are cleared, the first company is taken.
ParseCompaniesBegin ==
  /\ dpc = "idle" /\ todo > 0
  /\ failed_key_attempts' = NoCounts
  /\ attempt' = 0
  /\ dpc' = "attempt"
  /\ UNCHANGED <<program, callers, breaker, timer, splitter, pool, dadata_keys, current_index, force_token,
                 ignore_force_token_temporarily, dadata, keyMode, todo, last, streak,
                 retired, reused, used, rotations, nreq>>

\* One turn of the attempt loop of parse_company: the client is created if
\* there is none, the request is made, and its outcome is handled.  The
\* company is over on an answer, without any token, or after the last turn.
\* An empty answer returns before the counter of the current key is removed
\* and the pin restored; only a found organization reaches those lines.
Attempt ==
  /\ dpc = "attempt"
  /\ LET token == IF dadata # None THEN dadata
                  ELSE ClientToken(force_token, ignore_force_token_temporarily,
                                   dadata_keys, current_index)
         cur == GetCurrentKey(dadata_keys, current_index)
         over == /\ todo' = todo - 1
                 /\ attempt' = 0
                 /\ dpc' = IF todo = 1 THEN "finally" ELSE "attempt"
         goon == IF attempt >= MaxAttempts - 1 THEN over
                 ELSE attempt' = attempt + 1 /\ UNCHANGED <<todo, dpc>>
     IN IF token = None
        THEN /\ over
             /\ UNCHANGED <<current_index, failed_key_attempts,
                            ignore_force_token_temporarily, dadata, last, streak,
                            retired, reused, used, rotations, nreq>>
        ELSE \E out \in Outcomes(keyMode[token]) :
          LET seen == IF out \in Answers THEN 0
                      ELSE IF out \in KeyFailures THEN streak[token] + 1
                      ELSE streak[token]
              cnt == Count(failed_key_attempts, cur) + 1
              rotates == out = "limit" \/ (out = "forbidden" /\ ReachedLimit(cnt))
              ig == IF rotates /\ force_token # None /\ cur = force_token THEN TRUE
                    ELSE ignore_force_token_temporarily
              rc == RotateClient(force_token, ig, dadata_keys, current_index)
          IN /\ nreq' = nreq + 1
             /\ last' = [token |-> token, outcome |-> out]
             /\ used' = used \cup {token}
             /\ reused' = IF token \in retired THEN reused \cup {token} ELSE reused
             /\ streak' = [streak EXCEPT ![token] = seen]
             /\ retired' = IF seen >= max_key_attempts THEN retired \cup {token}
                           ELSE retired
             /\ failed_key_attempts' =
                  (IF out = "found" THEN Remove(failed_key_attempts, cur)
                   ELSE IF out = "forbidden" THEN Put(failed_key_attempts, cur, cnt)
                   ELSE failed_key_attempts)
             /\ ignore_force_token_temporarily' = IF out = "found" THEN FALSE ELSE ig
             /\ dadata' = IF rotates THEN rc.key ELSE token
             /\ current_index' = IF rotates THEN rc.index ELSE current_index
             /\ rotations' =
                  (IF rotates /\ ~Pinned(force_token, ig)
                   THEN rotations \cup {[token |-> token, outcome |-> out, seen |-> seen,
                                         count |-> IF out = "forbidden" THEN cnt
                                                   ELSE Count(failed_key_attempts, cur)]}
                   ELSE rotations)
             /\ IF out \in Answers THEN over ELSE goon
  /\ UNCHANGED <<program, callers, breaker, timer, splitter, pool, dadata_keys, force_token, keyMode>>

\* parse_companies, `finally`: the client is closed and dropped.
ParseCompaniesEnd ==
  /\ dpc = "finally"
  /\ dadata' = None
  /\ dpc' = "done"
  /\ UNCHANGED <<program, callers, breaker, timer, splitter, pool, dadata_keys, current_index, failed_key_attempts, force_token,
                 ignore_force_token_temporarily, keyMode, todo, attempt, last, streak,
                 retired, reused, used, rotations, nreq>>

\* A parser just built: DadataParser.__init__ and KeyRotator.__init__.
InitConnector(pools, modes, batches) ==
  /\ dadata_keys \in pools
  /\ current_index = 0
  /\ failed_key_attempts = NoCounts
  /\ force_token = None /\ ignore_force_token_temporarily = FALSE
  /\ dadata = None
  /\ keyMode \in modes
  /\ dpc = "idle" /\ todo \in batches /\ attempt = 0
  /\ last = [token |-> None, outcome |-> "none"]
  /\ streak = [k \in Keys |-> 0]
  /\ retired = {} /\ reused = {} /\ used = {} /\ rotations = {} /\ nreq = 0

\* No DadataParser is registered (main.py leaves its add_parser commented out).
ConnectorIdle == InitConnector({<<>>}, {[k \in Keys |-> "ok"]}, {0})

\* Pools: the keys in any order, without repeats.
Pools ==
  {ks \in UNION {[1..n -> Keys] : n \in 0..MaxKeys} :
     \A i, j \in 1..Len(ks) : i # j => ks[i] # ks[j]}

\* ------------------------------------------------- the Raiffeisen breaker
\* Time is counted in units of 600 s.
MaxTime == 9
\* RAIFFEISEN_BLOCK_TIME_SECONDS, default 3600 s.
RAIFFEISEN_BLOCK_TIME_SECONDS == 6
\* RAIFFEISEN_SECONDARY_WAIT_SECONDS, default 600 s.
RAIFFEISEN_SECONDARY_WAIT_SECONDS == 1

\* A block test that waits for the cooldown to be exceeded.
CooldownOverLate(elapsed) == elapsed > RAIFFEISEN_BLOCK_TIME_SECONDS
\* is_raiffeisen_blocked, `current_time - raiffeisen_block_time >= RAIFFEISEN_BLOCK_TIME_SECONDS`
CooldownOver(elapsed) == elapsed >= RAIFFEISEN_BLOCK_TIME_SECONDS

\* A trip test that refreshes the block time on every call.
ShouldBlockAlways(blocked, elapsed) == TRUE
\* set_raiffeisen_blocked, `not raiffeisen_blocked or (current_time -
\* raiffeisen_block_time > RAIFFEISEN_SECONDARY_WAIT_SECONDS)`
ShouldBlock(blocked, elapsed) == ~blocked \/ elapsed > RAIFFEISEN_SECONDARY_WAIT_SECONDS

NoCall == [at |-> -1, blocked |-> FALSE, time |-> 0, tripped |-> FALSE,
           ret |-> FALSE, blockedAfter |-> FALSE, timeAfter |-> 0]

\* is_raiffeisen_blocked(), under raiffeisen_lock.
IsRaiffeisenBlocked ==
  LET over == CooldownOver(now - raiffeisen_block_time)
      ret == raiffeisen_blocked /\ ~over
  IN /\ raiffeisen_blocked' = (raiffeisen_blocked /\ ~over)
     /\ lastQuery' = [at |-> now, blocked |-> raiffeisen_blocked,
                      time |-> raiffeisen_block_time, tripped |-> tripped,
                      ret |-> ret, blockedAfter |-> raiffeisen_blocked',
                      timeAfter |-> raiffeisen_block_time]
     /\ UNCHANGED <<program, callers, connector, timer, splitter, pool, raiffeisen_block_time, now, tripped, lastTrip>>

\* set_raiffeisen_blocked(), under raiffeisen_lock.
SetRaiffeisenBlocked ==
  LET set == ShouldBlock(raiffeisen_blocked, now - raiffeisen_block_time)
  IN /\ raiffeisen_blocked' = (set \/ raiffeisen_blocked)
     /\ raiffeisen_block_time' = IF set THEN now ELSE raiffeisen_block_time
     /\ tripped' = TRUE
     /\ lastTrip' = [at |-> now, blocked |-> raiffeisen_blocked,
                     time |-> raiffeisen_block_time, tripped |-> tripped,
                     ret |-> FALSE, blockedAfter |-> raiffeisen_blocked',
                     timeAfter |-> raiffeisen_block_time']
     /\ lastQuery' = NoCall
     /\ UNCHANGED <<program, callers, connector, timer, splitter, pool, now>>

\* time.time() moves on.
Tick ==
  /\ now < MaxTime
  /\ now' = now + 1
  /\ UNCHANGED <<program, callers, connector, timer, splitter, pool, raiffeisen_blocked, raiffeisen_block_time,
                 tripped, lastTrip, lastQuery>>

\* The module just imported: not blocked, block time 0, at a time after 0.
InitBreaker(times) ==
  /\ raiffeisen_blocked = FALSE /\ raiffeisen_block_time = 0
  /\ now \in times
  /\ tripped = FALSE /\ lastTrip = NoCall /\ lastQuery = NoCall

\* No parser asks the Raiffeisen site.
BreakerIdle == InitBreaker({1})

\* ------------------------------------------- DataManager, called directly
\* Longest time followed, in units of 150 s.
MaxClock == 3
\* save_results, `(current_time - self.last_save_time) > 300`, in those units.
TimeThreshold == 2

\* What _save_cache may meet: the write succeeds, open() raises and the file
\* stays as it was, or json.dump raises and leaves a truncated file.  Both
\* exceptions are caught and logged inside _save_cache.
WriteFates == {"written", "open_fails", "dump_fails"}

\* save_results up to `if should_save`: the early return for an unforced call
\* with nothing counted and nothing pending, then force, or the counter at the
\* interval, or more than the time threshold since the last save.
ShouldSave(force, counter, pending, elapsed) ==
  /\ ~(~force /\ counter = 0 /\ pending = {})
  /\ force \/ counter >= SaveInterval \/ elapsed > TimeThreshold

\* The store and its files as one value.
StoreNow ==
  [processed_inns |-> processed_inns, results |-> results,
   runtime_results |-> runtime_results, counter |-> save_results_counter,
   cache |-> cacheFile, bak |-> bakFile, csv |-> csvFile, last |-> last_save_time]

\* A save that empties runtime_results when it is over and merges them into
\* results only when the cache was written.
SaveResultsClearing(st, force, at, fate) ==
  IF ~ShouldSave(force, st.counter, DOMAIN st.runtime_results, at - st.last) THEN st
  ELSE LET res == IF fate = "written" THEN Update(st.results, st.runtime_results)
                  ELSE st.results
           ids == IF fate = "written" THEN st.processed_inns \cup DOMAIN st.runtime_results
                  ELSE st.processed_inns
       IN [st EXCEPT
             !.results = res,
             !.processed_inns = ids,
             !.runtime_results = EmptyMap,
             !.bak = IF st.cache.state # "absent" THEN st.cache ELSE st.bak,
             !.cache = (CASE fate = "written" -> CacheData(ids, res)
                          [] fate = "open_fails" -> st.cache
                          [] fate = "dump_fails" -> CorruptCache),
             !.csv = IF force THEN SaveToCsv(res, st.csv) ELSE st.csv,
             !.counter = 0,
             !.last = at]
\* save_results(force) from its first line to its last, on store st at time
\* at, the cache write meeting fate.
SaveResults(st, force, at, fate) ==
  IF ~ShouldSave(force, st.counter, DOMAIN st.runtime_results, at - st.last) THEN st
  ELSE LET res == Update(st.results, st.runtime_results)
           ids == st.processed_inns \cup DOMAIN st.runtime_results
       IN [st EXCEPT
             !.results = res,
             !.processed_inns = ids,
             !.bak = IF st.cache.state # "absent" THEN st.cache ELSE st.bak,
             !.cache = (CASE fate = "written" -> CacheData(ids, res)
                          [] fate = "open_fails" -> st.cache
                          [] fate = "dump_fails" -> CorruptCache),
             !.csv = IF force THEN SaveToCsv(res, st.csv) ELSE st.csv,
             !.counter = 0,
             !.last = at]

\* update_results(company) from its first line to its last, the save it may
\* start included.
UpdateResults(st, r, at, fate) ==
  IF ~Truthy(r.inn) THEN st
  ELSE LET put == [st EXCEPT !.runtime_results = Put(st.runtime_results, r.inn, r),
                             !.counter = st.counter + 1]
       IN IF IntervalReached(put.counter) THEN SaveResults(put, FALSE, at, fate)
          ELSE put

\* The store takes the value st.
Becomes(st) ==
  /\ processed_inns' = st.processed_inns /\ results' = st.results
  /\ runtime_results' = st.runtime_results /\ save_results_counter' = st.counter
  /\ cacheFile' = st.cache /\ bakFile' = st.bak /\ csvFile' = st.csv
  /\ last_save_time' = st.last

\* Results a parser may hand over for an id.
Handed == {Row(i, "FIO", None, HttpSite) : i \in Inns}

NoStoreCall == [op |-> "none", force |-> FALSE, counter |-> 0, pending |-> FALSE,
                elapsed |-> 0, saved |-> FALSE, fate |-> "written", failed |-> {}]
\* What a call found (the counter, whether anything was pending, the time
\* since the last save), whether it saved, and the ids that were in
\* runtime_results at any cache write that failed so far.
CallSeen(op, force, counter, pending, fate) ==
  LET saved == /\ ShouldSave(force, counter, pending, clock - last_save_time)
               /\ (op = "save_results" \/ IntervalReached(counter))
  IN [op |-> op, force |-> force, counter |-> counter, pending |-> pending # {},
      elapsed |-> clock - last_save_time, saved |-> saved,
      fate |-> IF saved THEN fate ELSE "written",
      failed |-> IF saved /\ fate # "written" THEN lastCall.failed \cup pending
                 ELSE lastCall.failed]

\* data_manager.update_results(r), as process_batch calls it.
CallUpdateResults ==
  \E r \in Handed, fate \in WriteFates :
    LET st == UpdateResults(StoreNow, r, clock, fate) IN
    /\ Becomes(st)
    /\ lastCall' = CallSeen("update_results", FALSE, save_results_counter + 1,
                            DOMAIN runtime_results \cup {r.inn}, fate)
    /\ UNCHANGED <<config, exit_code, globals, pc, flush, manager, history, connector, breaker,
                   splitter, pool, callers, clock>>

\* data_manager.save_results(force), as run and process_batch call it.
CallSaveResults ==
  \E force \in BOOLEAN, fate \in WriteFates :
    LET st == SaveResults(StoreNow, force, clock, fate) IN
    /\ Becomes(st)
    /\ lastCall' = CallSeen("save_results", force, save_results_counter,
                            DOMAIN runtime_results, fate)
    /\ UNCHANGED <<config, exit_code, globals, pc, flush, manager, history, connector, breaker,
                   splitter, pool, callers, clock>>

\* time.time() moves on.
ClockTick ==
  /\ clock < MaxClock
  /\ clock' = clock + 1
  /\ UNCHANGED <<program, callers, connector, breaker, splitter, pool, last_save_time, lastCall>>

\* DataManager.__init__: last_save_time = time.time().
TimerIdle == clock = 0 /\ last_save_time = 0 /\ lastCall = NoStoreCall

\* ------------------------------------------- run: one task per Checko key
\* Largest share followed.
MaxShare == 6
\* `min(100, ...)`: the most companies a key is given, scaled to the shares
\* followed here.
ChunkCap == 2

\* companies_batch[i:i + size]
Slice(seq, from, size) ==
  SubSeq(seq, from, IF from + size - 1 <= Len(seq) THEN from + size - 1 ELSE Len(seq))

\* run, lines 507-563, for a parser with checko_keys: the keys are the
\* parser's current key followed by the numbered keys of the environment; one
\* key takes the whole share with the parser at hand; several keys split it
\* into chunks of min(100, n // keys + 1) companies, chunk i going to a new
\* parser built on key i, and chunks beyond the number of keys get no task.
SubTasks(cur, env, batch) ==
  LET keys == <<cur>> \o env
      n == Len(batch)
      k == Len(keys)
      size == IF ChunkCap <= (n \div k) + 1 THEN ChunkCap ELSE (n \div k) + 1
      chunks == (n + size - 1) \div size
  IN IF k = 1 THEN <<[key |-> cur, items |-> batch]>>
     ELSE [i \in 1..(IF chunks <= k THEN chunks ELSE k) |->
             [key |-> keys[i], items |-> Slice(batch, (i - 1) * size + 1, size)]]

\* The loop body of run for that parser.
SubPartition ==
  /\ subtasks = <<>> /\ companies_batch # <<>>
  /\ subtasks' = SubTasks(checko_current, checko_env, companies_batch)
  /\ UNCHANGED <<program, callers, connector, breaker, timer, pool, checko_current, checko_env,
                 companies_batch>>

\* A parser whose current key is any key, an environment with any numbered
\* keys, a share of any size.
InitSplitter(currents, envs, sizes) ==
  /\ checko_current \in currents
  /\ checko_env \in envs
  /\ companies_batch \in {[i \in 1..n |-> i] : n \in sizes}
  /\ subtasks = <<>>

\* No parser with several keys is registered.
SplitterIdle == InitSplitter({None}, {<<>>}, {0})

\* --------------------------------------- run: sequential or worker processes
\* Largest number of shares and of processors followed.
MaxShares == 2
MaxCpu == 3
\* `min(..., 10)`: the upper limit of run's local max_workers.
WorkerCeiling == 10

Min(a, b) == IF a <= b THEN a ELSE b

\* run, lines 571-585: the local max_workers, from the environment alone.
LocalMaxWorkers(own, env, api, has_api) ==
  LET m == Min(env, WorkerCeiling) IN IF has_api THEN Min(m, api) ELSE m

\* Batches under way at the same time.
Running == {k \in DOMAIN batch_state : batch_state[k] = "running"}
\* What a batch records: a result for each id looked up with success.
Gains(k) == SUBSET {shares[k][j] : j \in 1..Len(shares[k])}

\* run, lines 567-588: the local max_workers and the choice of the mode.
ChooseMode ==
  /\ run_mode = "none"
  /\ LET m == LocalMaxWorkers(self_max_workers, env_max_workers, api_max_workers,
                              has_api_parsers)
     IN /\ max_workers' = m
        /\ run_mode' = IF m <= 1 \/ Len(shares) <= 1 THEN "sequential" ELSE "pool"
  /\ UNCHANGED <<program, callers, connector, breaker, timer, splitter, self_max_workers,
                 env_max_workers, api_max_workers, has_api_parsers, shares, batch_state,
                 parent_results, child_results, cache_ids>>

\* run, lines 589-594: `await task` for the next task in order.
AwaitBegin ==
  /\ run_mode = "sequential" /\ Running = {}
  /\ \E k \in DOMAIN batch_state :
       /\ batch_state[k] = "queued" /\ \A j \in 1..(k - 1) : batch_state[j] = "done"
       /\ batch_state' = [batch_state EXCEPT ![k] = "running"]
  /\ UNCHANGED <<program, callers, connector, breaker, timer, splitter, self_max_workers,
                 env_max_workers, api_max_workers, has_api_parsers, shares, run_mode,
                 max_workers, parent_results, child_results, cache_ids>>

\* process_batch in the main process: update_results on the DataManager of
\* the main process for every result.
AwaitEnd ==
  /\ run_mode = "sequential"
  /\ \E k \in Running : \E got \in Gains(k) :
       /\ batch_state' = [batch_state EXCEPT ![k] = "done"]
       /\ parent_results' = parent_results \cup got
  /\ UNCHANGED <<program, callers, connector, breaker, timer, splitter, self_max_workers,
                 env_max_workers, api_max_workers, has_api_parsers, shares, run_mode,
                 max_workers, child_results, cache_ids>>

\* run, lines 597-611: every share is submitted to
\* ProcessPoolExecutor(max_workers=max_workers), which runs at most that many
\* at a time.
WorkerBegin ==
  /\ run_mode = "pool" /\ Cardinality(Running) < max_workers
  /\ \E k \in DOMAIN batch_state :
       /\ batch_state[k] = "queued"
       /\ batch_state' = [batch_state EXCEPT ![k] = "running"]
  /\ UNCHANGED <<program, callers, connector, breaker, timer, splitter, self_max_workers,
                 env_max_workers, api_max_workers, has_api_parsers, shares, run_mode,
                 max_workers, parent_results, child_results, cache_ids>>

\* process_batch_sync in a worker process: process_batch calls update_results
\* on the worker's copy of the DataManager.
WorkerEnd ==
  /\ run_mode = "pool"
  /\ \E k \in Running : \E got \in Gains(k) :
       /\ batch_state' = [batch_state EXCEPT ![k] = "done"]
       /\ child_results' = [child_results EXCEPT ![k] = got]
  /\ UNCHANGED <<program, callers, connector, breaker, timer, splitter, self_max_workers,
                 env_max_workers, api_max_workers, has_api_parsers, shares, run_mode,
                 max_workers, parent_results, cache_ids>>

\* run, line 622: save_results(force=True) of the main process when every
\* task or future is over; _save_cache dumps its processed_inns.
ClosingSave ==
  /\ run_mode \in {"sequential", "pool"}
  /\ \A k \in DOMAIN batch_state : batch_state[k] = "done"
  /\ cache_ids' = parent_results
  /\ run_mode' = "over"
  /\ UNCHANGED <<program, callers, connector, breaker, timer, splitter, self_max_workers,
                 env_max_workers, api_max_workers, has_api_parsers, shares,
                 max_workers, batch_state, parent_results, child_results>>

\* Shares of one id each.
ShareLists(n) == [k \in 1..n |-> <<InnTable[k]>>]
InitPool(owns, envs, apis, kinds, sizes) ==
  /\ self_max_workers \in owns
  /\ env_max_workers \in envs
  /\ api_max_workers \in apis
  /\ has_api_parsers \in kinds
  /\ shares \in {ShareLists(n) : n \in sizes}
  /\ run_mode = "none" /\ max_workers = 0
  /\ batch_state = [k \in 1..Len(shares) |-> "queued"]
  /\ parent_results = {}
  /\ child_results = [k \in 1..Len(shares) |-> {}]
  /\ cache_ids = {}
\* No run is under way.
PoolIdle == InitPool({1}, {1}, {1}, {FALSE}, {0})

\* ---------------------------------------------------------- initial states
SeqsUpTo(S, n) == UNION {[1..k -> S] : k \in 0..n}

\* A result a former run left in the cache.
CachedRow(i) == Row(i, "FIO", "770000000000", "dadata.ru")
\* A row somebody edited into the export by hand.
CuratedRow(i) == Row(i, "Curated", "500000000000", "manual")
\* An export row with empty chairman cells.
BlankRow(i) == Row(i, None, None, None)

\* Cache files: missing, cut short, or any list of processed ids, with or
\* without a result for the first id (listed as processed or not).
CacheFiles ==
  {AbsentCache, CorruptCache} \cup
  {CacheOf(P, [i \in R |-> CachedRow(i)]) :
     P \in SUBSET Inns, R \in SUBSET {InnTable[1]}}

CsvRowMaps ==
  UNION {[S -> {"curated", "blank"}] : S \in SUBSET Inns}
CsvRows(m) ==
  [i \in DOMAIN m |-> IF m[i] = "curated" THEN CuratedRow(i) ELSE BlankRow(i)]
CsvFiles ==
  {AbsentCsv} \cup {CsvOf(CsvRows(m)) : m \in CsvRowMaps}
              \cup {UnreadableCsv(CsvRows(m)) : m \in CsvRowMaps}
\* A row the program exports for a result that has the chairman's name and no
\* chairman id.
NamedRow(i) == Row(i, "FIO", None, HttpSite)
\* Readable exports of complete and name-only rows.
NamedCsvFiles ==
  {CsvOf([i \in DOMAIN m |-> IF m[i] = "curated" THEN CuratedRow(i) ELSE NamedRow(i)]) :
     m \in UNION {[S -> {"curated", "named"}] : S \in SUBSET Inns}}

\* Rows of the sheet: any id without chairman cells, in any order and with
\* repeats, and the first id also with them filled in.
InputCells ==
  {[inn |-> i, has_data |-> FALSE] : i \in Inns}
    \cup {[inn |-> InnTable[1], has_data |-> TRUE]}
InputFiles ==
  {[state |-> "unreadable", rows |-> <<>>]} \cup
  {[state |-> "ok", rows |-> rs] : rs \in SeqsUpTo(InputCells, MaxInput)}

\* Parser registrations: none, one source, two sources, one source twice.
ParserLists ==
  {<<>>, <<BrowserSite>>, <<HttpSite, BrowserSite>>, <<HttpSite, HttpSite>>}

\* An export with a hand-edited row for the first id.
CuratedCsv == CsvOf([i \in {InnTable[1]} |-> CuratedRow(i)])

InitProgram(caches, csvs, inputs, plists) ==
  /\ cacheFile \in caches
  /\ bakFile = AbsentCache
  /\ csvFile \in csvs
  /\ inputFile \in inputs
  /\ parsers \in plists
  /\ lastGood = AbsentCache
  /\ runs = 1
  /\ FreshProcess

\* ------------------------- the secondary lookup on the Raiffeisen site
\* DadataParser._get_chairman_inn_via_raiffeisen, run in each worker process
\* of ParserManager.run.  raiffeisen_blocked and raiffeisen_block_time are
\* globals of the module site_parsers, and every process has its own module.
Procs == {1, 2}
\* Largest RAIFFEISEN_MAX_RETRY_ATTEMPTS followed (default '24').
MaxRetry == 2

\* What one turn of the loop meets once the page is asked for: the director's
\* id in the suggestions, an empty suggestion list, suggestions without an id,
\* the site refusing the client (the page does not load), an element of the
\* page that is not found in time, or a browser session that is gone.
RaiffeisenEvents ==
  {"found", "no_suggestions", "no_inn", "blocked", "no_element", "session_closed"}
\* The events that leave the try block by an exception.
RaiffeisenRaises == {"blocked", "no_element", "session_closed"}

\* is_raiffeisen_blocked() as process p would answer at time t
BlockedAt(p, t) == proc_blocked[p] /\ ~CooldownOver(t - proc_block_time[p])

NoLookup == [proc |-> 0, ev |-> "none", blocked |-> FALSE, time |-> 0,
             blockedAfter |-> FALSE, timeAfter |-> 0]

\* `self.driver.get("https://reg-raiffeisen.ru/")` by process p at time t: what
\* its own breaker and the breakers of the other processes say at that time.
Request(p, t) ==
  [proc |-> p, own |-> BlockedAt(p, t),
   elsewhere |-> \E q \in Procs \ {p} : BlockedAt(q, t)]

\* The call is made: `current_retry = 0`.
RaiffeisenCall(p) ==
  /\ rpc[p] = "idle"
  /\ rpc' = [rpc EXCEPT ![p] = "top"]
  /\ current_retry' = [current_retry EXCEPT ![p] = 0]
  /\ turns' = [turns EXCEPT ![p] = 0]
  /\ UNCHANGED <<program, connector, breaker, timer, splitter, pool, checko, codec, proc_blocked,
                 proc_block_time, wall, max_retry_attempts, sent, lastLookup>>

\* A turn of `while current_retry < max_retry_attempts` begins: the breaker
\* is asked; blocked, the coroutine goes to sleep, else the page is asked for.
Turn(p) ==
  /\ rpc[p] = "top" /\ current_retry[p] < max_retry_attempts
  /\ turns' = [turns EXCEPT ![p] = @ + 1]
  /\ proc_blocked' = [proc_blocked EXCEPT ![p] = BlockedAt(p, wall)]
  /\ IF BlockedAt(p, wall)
     THEN rpc' = [rpc EXCEPT ![p] = "sleep"] /\ UNCHANGED sent
     ELSE rpc' = [rpc EXCEPT ![p] = "page"] /\ sent' = sent \cup {Request(p, wall)}
  /\ UNCHANGED <<program, connector, breaker, timer, splitter, pool, checko, codec, proc_block_time,
                 wall, max_retry_attempts, current_retry, lastLookup>>

\* `await asyncio.sleep(RAIFFEISEN_SECONDARY_WAIT_SECONDS)` is over and the
\* breaker is asked again: still blocked, `continue` (current_retry is left as
\* it is), else the page is asked for.
Sleep(p) ==
  /\ rpc[p] = "sleep" /\ wall + RAIFFEISEN_SECONDARY_WAIT_SECONDS <= MaxTime
  /\ wall' = wall + RAIFFEISEN_SECONDARY_WAIT_SECONDS
  /\ proc_blocked' = [proc_blocked EXCEPT ![p] = BlockedAt(p, wall')]
  /\ IF BlockedAt(p, wall')
     THEN rpc' = [rpc EXCEPT ![p] = "top"] /\ UNCHANGED sent
     ELSE rpc' = [rpc EXCEPT ![p] = "page"] /\ sent' = sent \cup {Request(p, wall')}
  /\ UNCHANGED <<program, connector, breaker, timer, splitter, pool, checko, codec, proc_block_time,
                 max_retry_attempts, current_retry, turns, lastLookup>>

\* `if current_retry >= max_retry_attempts: return None`
RetriesExhausted(n, max) == n >= max

\* The rest of the turn.  An id found, or none in the page, returns.  Any
\* exception of the try block is caught by `except Exception`: the breaker
\* of this process is set, current_retry is incremented, and the loop goes on
\* unless the attempts are used up or the browser cannot be created again.
Page(p) ==
  /\ rpc[p] = "page"
  /\ \E ev \in RaiffeisenEvents, recreated \in BOOLEAN :
       LET elapsed == wall - proc_block_time[p]
           set == ev \in RaiffeisenRaises /\ ShouldBlock(proc_blocked[p], elapsed)
       IN /\ ev \notin RaiffeisenRaises => recreated
          /\ proc_blocked' = [proc_blocked EXCEPT ![p] = @ \/ set]
          /\ proc_block_time' = [proc_block_time EXCEPT ![p] = IF set THEN wall ELSE @]
          /\ current_retry' = [current_retry EXCEPT ![p] =
                                  IF ev \in RaiffeisenRaises THEN @ + 1 ELSE @]
          /\ rpc' = [rpc EXCEPT ![p] =
                       IF ev \notin RaiffeisenRaises THEN "returned"
                       ELSE IF RetriesExhausted(current_retry[p] + 1, max_retry_attempts)
                            THEN "returned"
                       ELSE IF recreated THEN "top" ELSE "returned"]
          /\ lastLookup' = [proc |-> p, ev |-> ev, blocked |-> proc_blocked[p],
                            time |-> proc_block_time[p],
                            blockedAfter |-> proc_blocked'[p],
                            timeAfter |-> proc_block_time'[p]]
  /\ UNCHANGED <<program, connector, breaker, timer, splitter, pool, checko, codec, wall,
                 max_retry_attempts, turns, sent>>

\* time.time() moves on.
Pass ==
  /\ wall < MaxTime
  /\ wall' = wall + 1
  /\ UNCHANGED <<program, connector, breaker, timer, splitter, pool, checko, codec, proc_blocked,
                 proc_block_time, max_retry_attempts, rpc, current_retry, turns, sent,
                 lastLookup>>

\* The modules just imported, no call made yet.
InitRaiffeisen(maxes) ==
  /\ proc_blocked = [p \in Procs |-> FALSE]
  /\ proc_block_time = [p \in Procs |-> 0]
  /\ wall = 1
  /\ max_retry_attempts \in maxes
  /\ rpc = [p \in Procs |-> "idle"]
  /\ current_retry = [p \in Procs |-> 0]
  /\ turns = [p \in Procs |-> 0]
  /\ sent = {}
  /\ lastLookup = NoLookup

\* --------------------------------------------- CheckoParser.parse_company
\* `max_attempts = 3`
CheckoMaxAttempts == 3

\* What one turn of `for attempt in range(max_attempts)` meets: the director
\* found, a page without the company or the director, a status below or from
\* 500 on either request, aiohttp.ClientError, or another exception.
CheckoEvents ==
  {"found", "missing", "status_4xx", "status_5xx", "client_error", "exception"}
\* The events after which the same company is asked again.
CheckoRetried == {"status_5xx", "client_error", "exception"}

\* A loop index that never moves.
NextAttemptSame(a) == a
\* `for attempt in range(max_attempts)`: the next value of attempt
NextAttempt(a) == a + 1

\* parse_company is called.
CheckoCall ==
  /\ http_pc = "idle"
  /\ http_pc' = "attempt" /\ http_attempt' = 0 /\ http_requests' = 0
  /\ UNCHANGED <<program, connector, breaker, timer, splitter, pool, raiffeisen, codec, http_result>>

\* One turn of the loop.  A status other than 200 is retried only from 500 on
\* and only before the last turn (`attempt < max_attempts - 1`); an exception
\* is retried before the last turn, and on the last turn the loop ends and
\* `return None` after it is reached.
CheckoAttempt ==
  /\ http_pc = "attempt"
  /\ \E ev \in CheckoEvents :
       /\ http_requests' = http_requests + 1
       /\ IF ev \in CheckoRetried /\ http_attempt < CheckoMaxAttempts - 1
          THEN /\ http_attempt' = NextAttempt(http_attempt)
               /\ UNCHANGED <<http_pc, http_result>>
          ELSE /\ http_pc' = "returned"
               /\ http_result' = IF ev = "found" THEN "company" ELSE "None"
               /\ UNCHANGED http_attempt
  /\ UNCHANGED <<program, connector, breaker, timer, splitter, pool, raiffeisen, codec>>

\* The caller takes the value and may call again for the next company.
CheckoNext ==
  /\ http_pc = "returned"
  /\ http_pc' = "idle" /\ http_result' = "none"
  /\ UNCHANGED <<program, connector, breaker, timer, splitter, pool, raiffeisen, codec, http_attempt,
                 http_requests>>

InitChecko ==
  http_pc = "idle" /\ http_attempt = 0 /\ http_requests = 0 /\ http_result = "none"

\* ------------------------------------- the cache file, written and read back
\* A JSON value of the file: a string with its text, a number with its decimal
\* text, or null.
JsonString(s) == [t |-> "string", v |-> s]
JsonNumber(d) == [t |-> "number", v |-> d]
JsonNull == [t |-> "null", v |-> None]

\* int() of the ids followed, as decimal text.
DecimalTable == <<"1", "2", "3", "4">>
Decimal(s) ==
  IF \E i \in 1..Len(InnTable) : InnTable[i] = s
  THEN DecimalTable[CHOOSE i \in 1..Len(InnTable) : InnTable[i] = s]
  ELSE s

\* A dump that writes a string of digits as a number.
JsonDumpDigits(v) ==
  IF v = None THEN JsonNull
  ELSE IF v \in Inns THEN JsonNumber(Decimal(v)) ELSE JsonString(v)
\* json.dump of a Python value of the store: None gives null, a str a string.
JsonDump(v) == IF v = None THEN JsonNull ELSE JsonString(v)
\* json.load of a value: null gives None, a string its text, a number an int.
JsonLoad(j) == IF j.t = "null" THEN None ELSE j.v
\* `str(inn).strip()`: the text of a str, the decimal text of an int.  The int
\* is held as its decimal text already, and no id of a store has blanks around
\* it (every insertion strips).
StrStrip(v) == v

\* CompanyData.to_dict (without the name column) as json.dump writes it
ToDict(c) ==
  [INN |-> JsonDump(c.inn), FIO |-> JsonDump(c.chairman_name),
   INN_Predsedatelya |-> JsonDump(c.chairman_inn), Istochnik |-> JsonDump(c.source)]
\* CompanyData.from_dict on what json.load made of the object
FromDict(d) ==
  Row(IF JsonLoad(d.INN) # None THEN StrStrip(JsonLoad(d.INN)) ELSE None,
      JsonLoad(d.FIO), JsonLoad(d.INN_Predsedatelya), JsonLoad(d.Istochnik))

\* _save_cache, lines 333-341: the list of processed ids without None, and
\* the dictionaries of results.values().
CacheJson(processed, res) ==
  [processed_inns |-> {JsonDump(StrStrip(i)) : i \in {x \in processed : x # None}},
   results |-> {ToDict(res[k]) : k \in DOMAIN res}]
\* _load_cache, lines 293-305: the ids of the list without null, and the
\* results keyed by the id each company carries, a company without id left out.
LoadCacheJson(f) ==
  LET companies == {FromDict(d) : d \in f.results}
      kept == {c \in companies : Truthy(c.inn)}
  IN [processed_inns |->
        {StrStrip(JsonLoad(j)) : j \in {x \in f.processed_inns : JsonLoad(x) # None}},
      results |-> [k \in {c.inn : c \in kept} |-> CHOOSE c \in kept : c.inn = k]]

NoJson == [processed_inns |-> {}, results |-> {}]
NoStore == [processed_inns |-> {}, results |-> EmptyMap]

\* save_results(force=True) of the DataManager: the runtime results are merged
\* (lines 327-331) and the cache file is written.
CodecSave ==
  /\ codec_pc = "filled"
  /\ LET keys == {k \in DOMAIN codec_runtime : Truthy(k)}
         merged == Update(codec_results, Restrict(codec_runtime, keys))
         inns == codec_processed \cup keys
     IN /\ codec_results' = merged
        /\ codec_processed' = inns
        /\ codec_file' = CacheJson(inns, merged)
  /\ codec_pc' = "saved"
  /\ UNCHANGED <<program, connector, breaker, timer, splitter, pool, raiffeisen, checko,
                 codec_runtime, codec_loaded>>

\* A new DataManager is built on the file, without an export file.
CodecLoad ==
  /\ codec_pc = "saved"
  /\ codec_loaded' = LoadCacheJson(codec_file)
  /\ codec_pc' = "loaded"
  /\ UNCHANGED <<program, connector, breaker, timer, splitter, pool, raiffeisen, checko,
                 codec_processed, codec_results, codec_runtime, codec_file>>

\* Ids a store may hold: the ids of companies, and the None and the empty
\* text that _load_csv_results takes from an export row without an id.
StoreIds == Inns \cup {None, ""}
\* A result with both chairman cells, and one that found nobody.
FoundRow(i) == Row(i, "FIO", "770000000000", "dadata.ru")
MissRow(i) == Row(i, NotFoundMark, NotFoundMark, "dadata.ru")
ResultMaps(ids) ==
  UNION {{[i \in S |-> IF i \in F THEN FoundRow(i) ELSE MissRow(i)] : F \in SUBSET S} :
           S \in SUBSET ids}

\* A store as a run has filled it: every id with a result is processed, and
\* None is processed only together with the export row that brought it.
InitCodec(idsets, resultmaps, runtimes) ==
  /\ codec_processed \in idsets
  /\ codec_results \in resultmaps
  /\ DOMAIN codec_results \subseteq codec_processed
  /\ None \in codec_processed => None \in DOMAIN codec_results
  /\ codec_runtime \in runtimes
  /\ codec_file = NoJson /\ codec_loaded = NoStore
  /\ codec_pc = "filled"
CodecIdle == InitCodec({{}}, {EmptyMap}, {EmptyMap})

\* No secondary lookup, no CheckoParser call and no cache round trip is under way.
CallersIdle == InitRaiffeisen({1}) /\ InitChecko /\ CodecIdle


InitWith(caches, csvs, inputs, plists) ==
  /\ InitProgram(caches, csvs, inputs, plists)
  /\ ConnectorIdle /\ BreakerIdle /\ TimerIdle /\ SplitterIdle /\ PoolIdle /\ CallersIdle

Step ==
  \/ Construct \/ Setup \/ RunFilter \/ Loop \/ Lookup \/ Record
  \/ Terminal \/ Stop \/ Final \/ Except \/ ExceptDone \/ Exit
  \/ \E t \in Threads :
       \/ SaveMerge(t) \/ CacheBackup(t) \/ CacheOpen(t)
       \/ CacheDump(t) \/ CsvWrite(t) \/ SaveFinish(t)

\* One run of the program on any files, sheet and parser list.
Init == InitWith(CacheFiles, {AbsentCsv, CuratedCsv}, InputFiles, ParserLists)
Next == Step
Spec == Init /\ [][Next]_vars

\* A cache a former run wrote for the first id.
UsedCache == CacheOf({InnTable[1]}, [i \in {InnTable[1]} |-> CachedRow(i)])

\* One run on any export file: readable or not, with curated and blank rows.
InitExport == InitWith({UsedCache}, CsvFiles, InputFiles, {<<BrowserSite>>})
SpecExport == InitExport /\ [][Next]_vars

\* Runs that may be killed at any point, each started on what the last left.
InitCrash == InitWith({AbsentCache}, {AbsentCsv}, InputFiles, {<<BrowserSite>>})
NextCrash == Step \/ Crash \/ Restart
SpecCrash == InitCrash /\ [][NextCrash]_vars

\* One run that Ctrl+C may interrupt at any point, once or twice.
InitSignal == InitWith({AbsentCache, UsedCache}, {AbsentCsv}, InputFiles, {<<BrowserSite>>})
NextSignal == Step \/ SigInt
SpecSignal == InitSignal /\ [][NextSignal]_vars

\* One batch of a DadataParser on any pool of keys, with or without a pinned
\* token.
NoProgram == InitProgram({AbsentCache}, {AbsentCsv}, {[state |-> "ok", rows |-> <<>>]}, {<<>>})
\* How the keys answer: each in its own way, at most one of them flaky.
KeyBehaviours ==
  {m \in [Keys -> KeyModes] : Cardinality({k \in Keys : m[k] = "flaky"}) <= 1}
InitKeys ==
  /\ NoProgram /\ InitConnector(Pools, KeyBehaviours, 1..MaxBatch)
  /\ BreakerIdle /\ TimerIdle /\ SplitterIdle /\ PoolIdle /\ CallersIdle
NextKeys == SetSpecificToken \/ ParseCompaniesBegin \/ Attempt \/ ParseCompaniesEnd
SpecKeys == InitKeys /\ [][NextKeys]_vars

\* The breaker called in any order as time passes.
InitBlock ==
  NoProgram /\ ConnectorIdle /\ InitBreaker(1..2) /\ TimerIdle /\ SplitterIdle /\ PoolIdle /\ CallersIdle
NextBlock == IsRaiffeisenBlocked \/ SetRaiffeisenBlocked \/ Tick
SpecBlock == InitBlock /\ [][NextBlock]_vars

\* Runs started on every cache and every export file.
InitLoad == InitWith(CacheFiles, CsvFiles \cup NamedCsvFiles, InputFiles, {<<BrowserSite>>})
SpecLoad == InitLoad /\ [][Next]_vars

\* The program with a DadataParser as its one parser.
InitApi == InitWith({AbsentCache, UsedCache}, {AbsentCsv}, InputFiles, {<<ApiSite>>})
SpecApi == InitApi /\ [][Next]_vars

\* A DataManager built on no files and called directly as time passes.
InitStore == NoProgram /\ ConnectorIdle /\ BreakerIdle /\ TimerIdle /\ SplitterIdle /\ PoolIdle /\ CallersIdle
NextStore == CallUpdateResults \/ CallSaveResults \/ ClockTick
SpecStore == InitStore /\ [][NextStore]_vars

\* The split of one share, for every current key, environment and share size.
InitSplit ==
  /\ NoProgram /\ ConnectorIdle /\ BreakerIdle /\ TimerIdle /\ PoolIdle /\ CallersIdle
  /\ InitSplitter(Keys, Pools, 1..MaxShare)
NextSplit == SubPartition
SpecSplit == InitSplit /\ [][NextSplit]_vars

\* run with the manager's max_workers as main or __init__ set it, any number
\* of processors, API_MAX_WORKERS 1 or 2 and one or more shares.
InitPoolRun ==
  /\ NoProgram /\ ConnectorIdle /\ BreakerIdle /\ TimerIdle /\ SplitterIdle /\ CallersIdle
  /\ InitPool({1, 3}, 1..MaxCpu, {1, 2}, BOOLEAN, 1..MaxShares)
NextPool == ChooseMode \/ AwaitBegin \/ AwaitEnd \/ WorkerBegin \/ WorkerEnd \/ ClosingSave
SpecPool == InitPoolRun /\ [][NextPool]_vars

\* The secondary lookup called in two worker processes, as time passes.
InitSecondary ==
  /\ NoProgram /\ ConnectorIdle /\ BreakerIdle /\ TimerIdle /\ SplitterIdle /\ PoolIdle
  /\ InitRaiffeisen(1..MaxRetry) /\ InitChecko /\ CodecIdle
NextSecondary ==
  \/ \E p \in Procs : RaiffeisenCall(p)
  \/ \E p \in Procs : Turn(p)
  \/ \E p \in Procs : Sleep(p)
  \/ \E p \in Procs : Page(p)
  \/ Pass
SpecSecondary == InitSecondary /\ [][NextSecondary]_vars

\* The lookups of a DadataParser and of a CheckoParser, company after company.
InitRetry ==
  /\ NoProgram /\ InitConnector(Pools, KeyBehaviours, 1..MaxBatch)
  /\ BreakerIdle /\ TimerIdle /\ SplitterIdle /\ PoolIdle /\ CallersIdle
NextRetry == NextKeys \/ CheckoCall \/ CheckoAttempt \/ CheckoNext
SpecRetry == InitRetry /\ [][NextRetry]_vars

\* Any store saved to the cache file, and the file read back.
InitRoundTrip ==
  /\ NoProgram /\ ConnectorIdle /\ BreakerIdle /\ TimerIdle /\ SplitterIdle /\ PoolIdle
  /\ InitRaiffeisen({1}) /\ InitChecko
  /\ InitCodec(SUBSET StoreIds, ResultMaps(StoreIds), ResultMaps(Inns))
NextRoundTrip == CodecSave \/ CodecLoad
SpecRoundTrip == InitRoundTrip /\ [][NextRoundTrip]_vars

\* ================================================================ properties
\* The source a task's batch is assigned to.
SourceOf(k) == parsers[tasks[k].parser]
\* The ids of the sheet.
InputInns == {inputFile.rows[k].inn : k \in 1..Len(inputFile.rows)}
\* Every lookup made for the id met a failure a retry could clear.
OnlyRetryable(i) ==
  /\ \E l \in lookups : l.inn = i
  /\ \A l \in lookups : l.inn = i => l.ev \in RetryableEvents

\* C1 (idempotent resume): an id that is in processed_inns once the store has
\* loaded cache and export is never handed to parse_company in that run,
\* whatever the cache holds and in whatever order the sheet lists the ids.
C1_NoLookupOfCompleted == \A l \in lookups : l.inn \notin loadedInns
\* A finished run whose sheet held a completed id and which looked others up.
C1_Witness ==
  /\ pc = "terminated"
  /\ InputInns \cap loadedInns # {}
  /\ \E l \in lookups : l.inn \in InputInns \ loadedInns

\* C2 (retryable failures stay retryable): an id whose lookups all ended in a
\* network error, a timeout or a block page is never recorded as a result.
C2_RetryableNeverRecorded ==
  \A i \in Inns : OnlyRetryable(i) => i \notin DOMAIN runtime_results

AfterCsv == \E t \in Threads : flush[t].step = "finish" /\ flush[t].export
\* The file the export save found had a row for the id that differs from the
\* store's result for it.
Conflict(i) ==
  /\ csvBefore.state = "ok"
  /\ i \in DOMAIN csvBefore.rows /\ i \in DOMAIN results
  /\ csvBefore.rows[i] # results[i]

\* C4 as stated (existing file wins): for an id whose row in the existing
\* export differs from the store's result, the row written is the file's.
C4_ExistingFileWins ==
  AfterCsv => \A i \in Inns : Conflict(i) => csvFile.rows[i] = csvBefore.rows[i]
\* C4 as the code has it (store wins): for such an id the row written is the
\* store's result; the file's row is replaced.
C4_StoreWins ==
  AfterCsv => \A i \in Inns :
    Conflict(i) => csvFile.state = "ok" /\ i \in DOMAIN csvFile.rows
                   /\ csvFile.rows[i] = results[i]
\* An export save has met a hand-edited row that differs from the store's result.
C4_Witness ==
  /\ AfterCsv
  /\ \E i \in Inns : Conflict(i) /\ csvBefore.rows[i] = CuratedRow(i)

\* C5 (export never drops rows): every id with a row in the export before an
\* export save has a row in it after the save, also when the file found could
\* not be read.
C5_NoExportedRowDropped ==
  AfterCsv => \A i \in DOMAIN csvBefore.rows : i \in DOMAIN csvFile.rows

\* C6 (crash safety): the content of the last cache write that ran to its end
\* is intact in the cache file or in its .bak copy, wherever a run is killed.
C6_LastGoodSurvives ==
  lastGood.state = "ok" => (cacheFile = lastGood \/ bakFile = lastGood)

\* C7 (single-shot shutdown): a process that built its store and ended by
\* normal completion, by a caught interrupt or by an exception has made
\* exactly one forced final save.
C7_OneFinalFlush ==
  (pc = "terminated" /\ data_manager /\ signals <= 1) => finalFlushes = 1

\* C8 (second signal during the handler's save): when the second SIGINT comes
\* while the first one's handler is saving, exactly one cache write of the
\* handler runs to its end and the cache holds what a single signal leaves:
\* every result and processed id, recorded ones included.
C8_SecondSignalHarmless ==
  (pc = "terminated" /\ signals = 2 /\ secondAt # "none") =>
    /\ cacheWrites["sig"] = 1
    /\ cacheFile = CacheData(processed_inns \cup DOMAIN runtime_results,
                             Update(results, runtime_results))

\* C11 (end to end, one connector, nothing loaded): when the run has ended
\* after a terminal failure, every id whose lookup answered found or not found
\* is a processed id and has a row in the export.
C11_AnsweredBeforeTerminalKept ==
  (pc = "terminated" /\ Len(parsers) = 1 /\ loadedInns = {} /\ halted # {}) =>
    \A l \in lookups : l.ev \in {"found", "not_found"} =>
      l.inn \in processed_inns /\ l.inn \in DOMAIN csvFile.rows

\* ------------------------------------------------------------ credentials
\* The index after n rotations.
RECURSIVE RotateTimes(_, _, _)
RotateTimes(keys, idx, n) ==
  IF n = 0 THEN idx ELSE RotateTimes(keys, RotateKey(keys, idx).index, n - 1)

\* The batch of credential rotation: keys [k1, k2], k1 always refused, k2
\* always answering, no pinned token.
RotationCase ==
  /\ dadata_keys = <<"k1", "k2">>
  /\ keyMode["k1"] = "forbidden" /\ keyMode["k2"] = "ok"
  /\ force_token = None

\* C12: in the rotation case, once k1 has failed max_key_attempts times in a
\* row no later request of the batch is made with k1: every one is made with k2.
C12_RetiredKeyNotReused ==
  RotationCase =>
    /\ "k1" \notin reused
    /\ ("k1" \in retired /\ last.token # "k1") => last.token = "k2"

C12_Witness ==
  /\ RotationCase /\ dpc = "done"
  /\ "k1" \in retired
  /\ last = [token |-> "k2", outcome |-> "found"]

C14_PinnedKeyAbandoned ==
  ( /\ dpc = "done" /\ force_token # None
    /\ keyMode[force_token] = "forbidden"
    /\ \E i \in 1..Len(dadata_keys) :
         dadata_keys[i] # force_token /\ keyMode[dadata_keys[i]] = "ok"
    /\ nreq > max_key_attempts )
  => ~(used \subseteq {force_token})

\* C17: with keys, the index is within 0..size-1, rotate_key moves it one
\* further modulo the size and returns the key get_current_key then returns,
\* and size rotations come back to the start; without keys both return None
\* and the index stays.
C17_RoundRobin ==
  LET n == Len(dadata_keys)
      r == RotateKey(dadata_keys, current_index)
  IN IF n = 0
     THEN /\ GetCurrentKey(dadata_keys, current_index) = None
          /\ r.key = None /\ r.index = current_index
     ELSE /\ current_index \in 0..(n - 1)
          /\ GetCurrentKey(dadata_keys, current_index) \in Keys
          /\ r.index = (current_index + 1) % n
          /\ r.key = GetCurrentKey(dadata_keys, r.index)
          /\ RotateTimes(dadata_keys, current_index, n) = current_index

C17_Witness ==
  /\ Len(dadata_keys) = MaxKeys
  /\ current_index = 0
  /\ Cardinality(rotations) >= MaxKeys

\* ---------------------------------------------------------------- breaker
\* C15: a set_raiffeisen_blocked call made while the breaker is blocked and at
\* most RAIFFEISEN_SECONDARY_WAIT_SECONDS after the block time leaves the block
\* time as it was and the breaker blocked; a query made after it answers
\* blocked exactly until that first block time plus the cooldown.
C15_DebouncedTripKeepsBlockTime ==
  ( /\ lastTrip.at >= 0 /\ lastTrip.blocked
    /\ lastTrip.at - lastTrip.time <= RAIFFEISEN_SECONDARY_WAIT_SECONDS )
  => /\ lastTrip.timeAfter = lastTrip.time
     /\ lastTrip.blockedAfter
     /\ (lastQuery.at >= 0 /\ lastQuery.time = lastTrip.time) =>
          lastQuery.ret = (lastQuery.at - lastTrip.time < RAIFFEISEN_BLOCK_TIME_SECONDS)

C15_Witness ==
  /\ lastTrip.at >= 0 /\ lastTrip.blocked
  /\ lastTrip.at = lastTrip.time + RAIFFEISEN_SECONDARY_WAIT_SECONDS
  /\ lastQuery.at = lastTrip.time + RAIFFEISEN_BLOCK_TIME_SECONDS
  /\ lastQuery.time = lastTrip.time
  /\ ~lastQuery.ret

RecordedOf(k) ==
  {i \in DOMAIN runtime_results : \E n \in 1..Len(tasks[k].items) : tasks[k].items[n] = i}

\* C18: when the next batch is started, every result recorded by a completed
\* batch is in the cache file and in the export file.
C18_FlushedBeforeNextBatch ==
  \A k \in completed :
    (pc = "lookup" /\ taskIdx > k) =>
      \A i \in RecordedOf(k) :
        /\ cacheFile.state = "ok" /\ i \in cacheFile.processed_inns
        /\ i \in DOMAIN csvFile.rows

\* Every runtime result is a result and a processed id of the store ...
Absorbed ==
  \A i \in DOMAIN runtime_results :
    i \in processed_inns /\ i \in DOMAIN results /\ results[i] = runtime_results[i]
\* ... and of the cache file.
AbsorbedInCache ==
  /\ cacheFile.state = "ok"
  /\ \A i \in DOMAIN runtime_results :
       /\ i \in cacheFile.processed_inns /\ i \in DOMAIN cacheFile.results
       /\ cacheFile.results[i] = runtime_results[i]
\* Some save is between its first and its last step.
SaveOpen == \E t \in Threads : flush[t].step # "idle"

\* C19: when a save has written its files, every runtime result is in the
\* store's results and processed ids and in the cache file; and no step of a
\* save removes or changes a runtime result.
C19_DeltaAbsorbedNotCleared ==
  /\ [](\A t \in Threads : flush[t].step = "finish" => Absorbed /\ AbsorbedInCache)
  /\ [][SaveOpen => runtime_results' = runtime_results]_vars

C19_Witness ==
  /\ flush["main"].step = "finish" /\ flush["main"].kind = "final"
  /\ cacheWrites["main"] >= 2
  /\ Cardinality(DOMAIN runtime_results) >= 2
  /\ Absorbed /\ AbsorbedInCache

\* Nothing is left to save: the runtime results are absorbed and the last
\* cache written holds the store as it is.
Settled ==
  /\ Absorbed
  /\ lastGood.state = "ok"
  /\ lastGood = CacheData(processed_inns, results)

\* C20: a save started when nothing is left to save changes neither the
\* processed ids nor the results, and the cache file it writes is the one the
\* save before wrote.
C20_FlushIdempotent ==
  [][(Settled /\ SaveOpen) =>
       /\ processed_inns' = processed_inns
       /\ results' = results
       /\ cacheFile' \in {cacheFile, CorruptCache, lastGood}
       /\ lastGood' = lastGood]_vars

C20_Witness ==
  /\ Settled
  /\ flush["main"].step = "finish" /\ flush["main"].kind = "final"
  /\ cacheWrites["main"] = 2 /\ save_results_counter = 0
  /\ runtime_results # EmptyMap
  /\ cacheFile = lastGood

\* ------------------------------------------------------------ update_results
\* The main thread is about to hand the next result of the batch to
\* update_results.
Recording == MainReady /\ pc = "record" /\ recIdx <= Len(batchResults)

\* C21 as stated: update_results never starts a save of its own, so no save
\* of the interval kind is ever open.
C21_RecordNeverSaves ==
  flush["main"].kind # "interval"

\* C21, amended: update_results puts the result into runtime_results under its
\* id (replacing an earlier one) and adds one to the counter; in that step it
\* changes neither results, processed_inns nor any file; when the counter has
\* reached save_interval, and only then, it starts save_results(force=False),
\* a save without export that ends with the counter at 0.
C21_RecordStartsIntervalSave ==
  /\ [](/\ (flush["main"].kind = "interval") =>
             ~flush["main"].export /\ save_results_counter >= SaveInterval
        /\ (MainReady /\ pc \in {"loop", "lookup", "record"}) =>
             save_results_counter < SaveInterval)
  /\ [][Recording =>
          LET r == batchResults[recIdx] IN
          /\ results' = results /\ processed_inns' = processed_inns
          /\ files' = files
          /\ IF Truthy(r.inn)
             THEN /\ runtime_results' = Put(runtime_results, r.inn, r)
                  /\ save_results_counter' = save_results_counter + 1
             ELSE runtime_results' = runtime_results
                  /\ save_results_counter' = save_results_counter]_vars

C21_Witness ==
  /\ flush["main"] = Begin("interval", FALSE, TRUE)
  /\ save_results_counter = SaveInterval
  /\ Cardinality(DOMAIN runtime_results) = 1
  /\ Len(parsers) = 2
  /\ \E l \in lookups :
       /\ l.parser = 1 /\ l.ev = "found" /\ l.inn \in DOMAIN runtime_results
       /\ runtime_results[l.inn].chairman_inn # None

\* ------------------------------------------------------------ save_results
\* C22: a call that finds something pending saves if and only if it is forced,
\* or the counter has reached the interval, or more than the time threshold
\* has passed since the last save; a result recorded after the time threshold
\* is saved by that time alone.
C22_FlushIffTriggered ==
  (lastCall.op # "none" /\ lastCall.pending) =>
    (lastCall.saved <=>
       (lastCall.force \/ lastCall.counter >= SaveInterval
          \/ lastCall.elapsed > TimeThreshold))

\* ------------------------------------------------------------------ loading
\* The ids whose export row carries both chairman cells.
FilledRows(f) == {i \in DOMAIN f.rows : HasChairman(f.rows[i])}

\* C23: the constructor always ends with the store built; a missing or corrupt
\* cache file gives it nothing, an unreadable or missing export file gives it
\* nothing, and with both the store is empty.
C23_LoadFailsSoft ==
  /\ [](pc = "setup" =>
          /\ data_manager
          /\ cacheFile.state # "ok" =>
               /\ csvFile.state # "ok" => processed_inns = {} /\ results = EmptyMap
               /\ csvFile.state = "ok" =>
                    /\ processed_inns = FilledRows(csvFile)
                    /\ results = Restrict(csvFile.rows, FilledRows(csvFile))
          /\ (cacheFile.state = "ok" /\ csvFile.state # "ok") =>
               /\ processed_inns = cacheFile.processed_inns
               /\ results = cacheFile.results)
  /\ [][pc = "start" => pc' = "setup"]_vars

C23_Witness ==
  /\ pc = "setup" /\ data_manager
  /\ cacheFile.state = "corrupt"
  /\ csvFile.state = "unreadable" /\ FilledRows(csvFile) # {}
  /\ processed_inns = {} /\ results = EmptyMap

\* ------------------------------------------------------------ distribution
\* The tasks whose share holds id i.
TasksHolding(i) ==
  {k \in 1..Len(tasks) : \E n \in 1..Len(tasks[k].items) : tasks[k].items[n] = i}

\* C24: the shares made by distribute_companies hold every id for one parser
\* only, and no id is looked up by more than one parser during the run.
C24_OneConnectorPerEntity ==
  /\ \A i \in Inns : Cardinality(TasksHolding(i)) <= 1
  /\ \A l1, l2 \in lookups : l1.inn = l2.inn => l1.parser = l2.parser

\* C25: when the share is split over several keys, every task holds at most
\* ChunkCap companies and no two tasks are bound to the same key.
C25_CappedDistinctKeys ==
  (subtasks # <<>> /\ checko_env # <<>>) =>
    /\ \A i \in 1..Len(subtasks) : Len(subtasks[i].items) <= ChunkCap
    /\ \A i, j \in 1..Len(subtasks) : i # j => subtasks[i].key # subtasks[j].key

\* C26: a row of the sheet that carries both chairman cells gives no company to
\* any parser.  An id whose first row carries them is never looked up and gets
\* no runtime result, and is in processed_inns once the sheet is filtered; the
\* filter marks the id of every such row processed, makes no more work items
\* than there are rows without the cells, and stores no result.
AnsweredRows ==
  IF inputFile.state = "ok"
  THEN {k \in 1..Len(inputFile.rows) : inputFile.rows[k].has_data}
  ELSE {}
AnsweredFirst(i) ==
  \E k \in AnsweredRows :
    /\ inputFile.rows[k].inn = i
    /\ \A j \in 1..(k - 1) : inputFile.rows[j].inn # i
ItemCount(ts) == Cardinality({<<k, j>> \in (1..MaxInput) \X (1..MaxInput) :
                                k <= Len(ts) /\ j <= Len(ts[k].items)})
Filtered == pc \in {"loop", "lookup", "record", "terminal", "stop", "final"}
C26_AnsweredRowSkipped ==
  /\ [](\A i \in Inns : AnsweredFirst(i) =>
          /\ \A l \in lookups : l.inn # i
          /\ i \notin DOMAIN runtime_results
          /\ (Filtered => i \in processed_inns))
  /\ [][(pc = "run" /\ pc' \in {"loop", "exit"}) =>
          /\ \A k \in AnsweredRows : inputFile.rows[k].inn \in processed_inns'
          /\ ItemCount(tasks') <= Len(inputFile.rows) - Cardinality(AnsweredRows)
          /\ results' = results /\ runtime_results' = runtime_results]_vars
C26_Witness ==
  /\ pc = "lookup"
  /\ \E i \in Inns : AnsweredFirst(i) /\ i \notin loadedInns /\ i \in processed_inns

\* C27: after the load, the id of every row of a readable export that has a
\* chairman name is in processed_inns, whether or not the row has a chairman id.
Loading == pc = "start" /\ pc' = "setup" /\ csvFile.state = "ok"
C27_NamedRowsPreCompleted ==
  [][Loading =>
       \A i \in DOMAIN csvFile.rows :
         csvFile.rows[i].chairman_name # None => i \in processed_inns']_vars
\* C27 as the code has it: a row of a readable export with both chairman cells
\* filled, whose id has no result from the cache, becomes a result and a
\* processed id; a row without both cells adds nothing, so its id is processed
\* after the load only when the cache lists it.
C27_FilledRowsPreCompleted ==
  [][Loading =>
       \A i \in DOMAIN csvFile.rows :
         LET row == csvFile.rows[i]
             cached == LoadCache(cacheFile)
         IN /\ (HasChairman(row) /\ i \notin DOMAIN cached.results) =>
                 (i \in processed_inns' /\ i \in DOMAIN results' /\ results'[i] = row)
            /\ ~HasChairman(row) =>
                 (i \in processed_inns' <=> i \in cached.processed_inns)]_vars
C27_Witness ==
  /\ pc = "setup" /\ signals = 0 /\ csvFile.state = "ok"
  /\ \E i, j \in DOMAIN csvFile.rows :
       /\ csvFile.rows[i] = NamedRow(i) /\ i \notin loadedInns
       /\ HasChairman(csvFile.rows[j]) /\ j \in loadedInns
       /\ j \notin LoadCache(cacheFile).processed_inns

\* C28: a run without any registered parser, or whose sheet cannot be read,
\* never gets to its tasks and ends with a completion status other than 0.
RunningPlaces == {"loop", "lookup", "record", "terminal", "stop", "final"}
C28_FatalAborts ==
  (signals = 0 /\ (parsers = <<>> \/ inputFile.state # "ok")) =>
    /\ pc \notin RunningPlaces
    /\ pc = "terminated" => exit_code = <<1>>

\* C29: a cache write that fails takes nothing out of runtime_results, and
\* after the next save that writes the cache the file holds every runtime
\* result, those that were pending at a failed write included.
C29_FailedWriteLosesNothing ==
  /\ []((lastCall.saved /\ lastCall.fate = "written") =>
          /\ cacheFile.state = "ok"
          /\ lastCall.failed \subseteq DOMAIN runtime_results
          /\ \A i \in DOMAIN runtime_results :
               /\ i \in cacheFile.processed_inns
               /\ i \in DOMAIN cacheFile.results
               /\ cacheFile.results[i] = runtime_results[i])
  /\ [][\A i \in DOMAIN runtime_results :
          i \in DOMAIN runtime_results' /\ runtime_results'[i] = runtime_results[i]]_vars
C29_Witness ==
  /\ lastCall.saved /\ lastCall.fate = "written"
  /\ lastCall.failed # {}
  /\ \A i \in lastCall.failed : i \in DOMAIN cacheFile.results

\* C30: whatever a lookup or a batch raised, a run that got to its tasks ends
\* with the closing save and status 0, every item of every task looked up.
LookedUp(k, j) ==
  \E l \in lookups : l.inn = tasks[k].items[j] /\ l.parser = tasks[k].parser
RanTasks == pc = "terminated" /\ signals = 0 /\ tasks # <<>>
EndedEarly(k) ==
  \E l \in lookups : /\ l.parser = tasks[k].parser
                      /\ l.ev \in {ApiLimitExceeded, "restart_fails"}
MidSave(t) == flush[t].step \in {"backup", "open", "dump", "csv"}
C31_FlushesSerialized ==
  ~(MidSave("main") /\ flush["sig"].step # "idle")

\* C32: the batches under way at one time are never more than the manager's
\* max_workers.
C32_WithinWorkerBudget ==
  Cardinality(Running) <= self_max_workers

\* C33: every result is handed to update_results once: until the first save
\* of a run, save_results_counter is never more than the number of results
\* the first batch produced, and equals it when the batch has been recorded.
FirstBatchUnsaved ==
  /\ Alive /\ taskIdx = 1 /\ pc \in {"lookup", "record"} /\ signals = 0
  /\ \A t \in Threads : cacheWrites[t] = 0
FirstBatchRecorded ==
  FirstBatchUnsaved /\ pc = "record" /\ recIdx > Len(batchResults)
    /\ flush["main"].step = "idle"
C33_RecordedOnce ==
  /\ FirstBatchUnsaved => save_results_counter <= Len(batchResults)
  /\ FirstBatchRecorded => save_results_counter = Len(batchResults)

\* C34: a request goes to the Raiffeisen site only while no breaker says
\* blocked: neither the breaker of the process that sends it nor the breaker
\* of another worker process that has detected the block.
C34_NoRequestWhileBlocked ==
  \A s \in sent : ~s.own /\ ~s.elsewhere

\* C35: a page outcome other than the site's block leaves the breaker of the
\* process (flag and block time) as it was.
C35_OnlyBlockTrips ==
  lastLookup.ev \notin {"none", "blocked"} =>
    /\ lastLookup.blockedAfter = lastLookup.blocked
    /\ lastLookup.timeAfter = lastLookup.time

\* C37: a call of the secondary lookup makes at most max_retry_attempts turns
\* of its loop, the turns spent waiting on a blocked breaker included.
C37_TurnsBounded ==
  \A p \in Procs : turns[p] <= max_retry_attempts

\* C36: a lookup asks a bounded number of times for one company: CheckoParser
\* makes at most 3 turns of its loop, DadataParser at most as many as it has
\* keys (one without keys), and the call then returns None to its caller.
C36_BoundedRetries ==
  /\ http_requests <= CheckoMaxAttempts
  /\ http_pc = "attempt" => http_attempt = http_requests
  /\ http_pc = "returned" => http_result \in {"company", "None"}
  /\ attempt < MaxAttempts
C36_Witness ==
  /\ http_pc = "returned" /\ http_result = "None" /\ http_requests = CheckoMaxAttempts
  /\ dpc = "attempt" /\ MaxAttempts = 2 /\ attempt = 1
  /\ last.outcome \notin Answers /\ last.token # None

\* C38: when run is over, every id for which a batch obtained a result is
\* among the processed ids of the cache file the closing save wrote, whether
\* the batch ran in the main process or in a worker process.
C38_ResultsReachFinalFlush ==
  run_mode = "over" =>
    /\ parent_results \subseteq cache_ids
    /\ \A k \in DOMAIN child_results : child_results[k] \subseteq cache_ids

\* C39: splitting a share over the keys loses no company: every position of
\* the share is in exactly one of the tasks made for it.
Holders(i) ==
  {<<t, j>> \in (1..Len(subtasks)) \X (1..Len(companies_batch)) :
     j <= Len(subtasks[t].items) /\ subtasks[t].items[j] = companies_batch[i]}
C39_NoCompanyLost ==
  subtasks # <<>> =>
    \A i \in 1..Len(companies_batch) : Cardinality(Holders(i)) = 1

\* C40: a store saved to the cache file and read back by a new DataManager
\* (no export file) has the same processed ids and the same results, every id
\* the same text with its leading zeros.
C40_RoundTripExact ==
  codec_pc = "loaded" =>
    /\ codec_loaded.processed_inns = codec_processed
    /\ codec_loaded.results = codec_results

\* C40 as the code has it: the store read back has the processed ids of the
\* saved one except None, and its results except those under None or the
\* empty text; every other id is the same text, leading zeros included, and
\* every result kept has the same fields.
C40_RoundTripOfIds ==
  codec_pc = "loaded" =>
    /\ codec_loaded.processed_inns = codec_processed \ {None}
    /\ codec_loaded.results =
         Restrict(codec_results, {k \in DOMAIN codec_results : Truthy(k)})
    /\ \A i \in Inns : i \in codec_processed <=> i \in codec_loaded.processed_inns
C40_Witness ==
  /\ codec_pc = "loaded"
  /\ InnTable[1] \in codec_loaded.processed_inns
  /\ InnTable[1] \in DOMAIN codec_loaded.results
  /\ InnTable[1] \in DOMAIN codec_runtime
  /\ None \in codec_processed /\ None \in DOMAIN codec_results
====
